---- MODULE Spec2Model ----
(***************************************************************************)
(* Render backends of SDL3: the PSP renderer (render-target residency in   *)
(* VRAM with LRU spilling, swizzled texture layout, GU blend-state cache)  *)
(* and the Vita GXM renderer (command queue translation, draw batching,    *)
(* draw-state cache).                                                      *)
(*                                                                         *)
(* Memory is modelled in 32-bit words: both layout codecs copy unsigned    *)
(* ints.  A texture's pixel store is a sequence of words; a word that no   *)
(* copy wrote holds whatever the allocation held (a value of Garbage).     *)
(***************************************************************************)
EXTENDS Integers, Sequences, FiniteSets, TLC

VARIABLES
    tex,          \* PSP_TextureData of every SDL_Texture slot (texture->internal)
    lru,          \* PSP_RenderData.most_recent_target / least_recent_target
    boundTarget,  \* PSP_RenderData.boundTarget
    displayListAvail, \* PSP_RenderData.displayListAvail
    blendState,   \* PSP_RenderData.blendState
    gu,           \* native GU state and the GU calls of the last command queue run
    useOrder,     \* history: the live targets by their last create or successful
                  \*   bind (which of the two it was), most recent first
    lastOp,       \* history: the last operation, its result, the bind it made and
                  \*   the targets it spilled
    orig,         \* history: the pixel words of texture 1 as they were written
    driver,       \* the render driver in use: "PSP" or "VITA gxm"
    queue,        \* the render commands queued since the last RunCommandQueue
    ran,          \* history: the commands the last RunCommandQueue was given
    vita,         \* VITA_GXM_RenderData: drawing, the blend programs, drawstate
    vitaTex,      \* VITA_GXM_TextureData of the Vita textures: the cached sampling modes
    gxm,          \* history: the native GXM calls of the last VITA_GXM_RunCommandQueue
    pool,         \* VITA_GXM_RenderData.pool_index / current_pool, and the history of
                  \*   the vertex allocations of this frame and the one before
    gpu,          \* history: the textures that submitted GPU work may still read or
                  \*   write, and the last texture operation
    winrt         \* the WinRT video driver: WINRT_GlobalSDLWindow, the windows and
                  \*   the last window operation

pspVars == <<tex, lru, boundTarget, displayListAvail, blendState, gu,
             useOrder, lastOp, orig>>
queueVars == <<driver, queue, ran>>
vitaVars == <<vita, vitaTex, gxm, pool>>

vars == <<pspVars, queueVars, vitaVars, gpu, winrt>>

-----------------------------------------------------------------------------
(* Bounds of the model *)

NumTex == 3          \* SDL_Texture slots (an address is reused after destroy)
VramBytes == 256     \* VRAM left for textures after the two frame buffers
MaxQueue == 3        \* commands in one command queue

T == 1..NumTex
NULL == 0

Garbage == {0, -1}   \* contents of memory that was allocated and never written

-----------------------------------------------------------------------------
(* Small helpers *)

Max(S) == CHOOSE x \in S : \A y \in S : y <= x
Min(S) == CHOOSE x \in S : \A y \in S : x <= y

\* C integer division truncates toward zero
CDiv(a, b) == IF a >= 0 THEN a \div b ELSE -((-a) \div b)

-----------------------------------------------------------------------------
(* Pixel formats *)

Formats == {"BGR565", "ABGR1555", "ABGR4444", "ABGR8888"}

SDL_BYTESPERPIXEL(format) ==
    IF format \in {"BGR565", "ABGR1555", "ABGR4444", "RGB565"} THEN 2
    ELSE IF format = "RGB24" THEN 3 ELSE 4

PixelFormatToPSPFMT(format) ==
    CASE format = "BGR565"   -> "GU_PSM_5650"
      [] format = "ABGR1555" -> "GU_PSM_5551"
      [] format = "ABGR4444" -> "GU_PSM_4444"
      [] format = "ABGR8888" -> "GU_PSM_8888"
      [] OTHER               -> "GU_PSM_8888"

RECURSIVE TextureNextPow2Loop(_, _)
TextureNextPow2Loop(w, n) == IF w > n THEN TextureNextPow2Loop(w, n * 2) ELSE n

TextureNextPow2(w) == IF w = 0 THEN 0 ELSE TextureNextPow2Loop(w, 2)

-----------------------------------------------------------------------------
(* Addresses.  A VRAM address is its offset in the texture part of VRAM;   *)
(* every block of system memory is the one address Sram.                   *)

Sram == VramBytes + 1
NoData == -1   \* a NULL data pointer (below every address, as in C)

InVram(data) == data < VramBytes

NoTexture ==
    [live |-> FALSE, access |-> "static", w |-> 0, h |-> 0, sdlformat |-> "ABGR8888",
     data |-> NoData, pixels |-> << >>, size |-> 0, width |-> 0, height |-> 0,
     textureWidth |-> 0, textureHeight |-> 0, bits |-> 0, format |-> "GU_PSM_8888",
     pitch |-> 0, swizzled |-> FALSE, prevhotw |-> NULL, nexthotw |-> NULL]

\* The VRAM blocks in use: <<address, size>> of every store that is in VRAM
VramBlocks(W) ==
    {<<W.tex[t].data, W.tex[t].size>> : t \in {u \in T : W.tex[u].live /\ InVram(W.tex[u].data)}}

\* Where a free gap can start, and how long the gap starting there is
GapStarts(W) ==
    {a \in {0} \cup {b[1] + b[2] : b \in VramBlocks(W)} :
        a < VramBytes /\ \A b \in VramBlocks(W) : ~(b[1] <= a /\ a < b[1] + b[2])}

GapLen(W, a) ==
    Min({VramBytes} \cup {b[1] : b \in {c \in VramBlocks(W) : c[1] >= a}}) - a

vlargestblock(W) == IF GapStarts(W) = {} THEN 0 ELSE Max({GapLen(W, a) : a \in GapStarts(W)})

\* vramalloc: the lowest or the highest gap that fits, by the allocator's policy
vramalloc(W, size, policy) ==
    LET fits == {a \in GapStarts(W) : GapLen(W, a) >= size}
    IN IF fits = {} THEN NoData
       ELSE IF policy = "low" THEN Min(fits) ELSE Max(fits)

-----------------------------------------------------------------------------
(* Render target LRU list.  W is the memory the functions work on: the     *)
(* textures, most_recent_target and least_recent_target, and what the      *)
(* environment does in this call: mleft (how many SDL_malloc calls still   *)
(* succeed), policy (where vramalloc places a block), g (what unwritten    *)
(* memory holds); overrun records a write past the end of a store and      *)
(* spilled the targets TextureSpillLRU evicted, in order.                  *)

\* A relink that repairs the link of the node before and not of the node after
LRUTargetRelinkForward(W, t) ==
    LET p == W.tex[t].prevhotw
        n == W.tex[t].nexthotw
    IN IF p # NULL THEN [W EXCEPT !.tex[p].nexthotw = n] ELSE W

LRUTargetRelink(W, t) ==
    LET p == W.tex[t].prevhotw
        n == W.tex[t].nexthotw
        tex1 == IF p # NULL THEN [W.tex EXCEPT ![p].nexthotw = n] ELSE W.tex
        tex2 == IF n # NULL THEN [tex1 EXCEPT ![n].prevhotw = p] ELSE tex1
    IN [W EXCEPT !.tex = tex2]

\* A push that links the texture behind the least recent one
LRUTargetPushBack(W, t) ==
    LET l == W.least_recent_target
        tex1 == [W.tex EXCEPT ![t].prevhotw = l]
        tex2 == IF l # NULL THEN [tex1 EXCEPT ![l].nexthotw = t] ELSE tex1
    IN [W EXCEPT !.tex = tex2,
                 !.least_recent_target = t,
                 !.most_recent_target = IF W.most_recent_target = NULL THEN t ELSE @]

LRUTargetPushFront(W, t) ==
    LET m == W.most_recent_target
        tex1 == [W.tex EXCEPT ![t].nexthotw = m]
        tex2 == IF m # NULL THEN [tex1 EXCEPT ![m].prevhotw = t] ELSE tex1
    IN [W EXCEPT !.tex = tex2,
                 !.most_recent_target = t,
                 !.least_recent_target = IF W.least_recent_target = NULL THEN t ELSE @]

\* A removal that forgets the two ends of the list
LRUTargetRemoveInner(W, t) ==
    [LRUTargetRelink(W, t) EXCEPT !.tex[t].prevhotw = NULL, !.tex[t].nexthotw = NULL]

LRUTargetRemove(W, t) ==
    LET Ends(W1) ==
            [W1 EXCEPT !.most_recent_target = IF @ = t THEN W1.tex[t].nexthotw ELSE @,
                       !.least_recent_target = IF @ = t THEN W1.tex[t].prevhotw ELSE @,
                       !.tex[t].prevhotw = NULL,
                       !.tex[t].nexthotw = NULL]
    IN Ends(LRUTargetRelink(W, t))

\* A bind that leaves the list as it is
LRUTargetKeep(W, t) == W

LRUTargetBringFront(W, t) ==
    IF W.most_recent_target = t THEN W
    ELSE LRUTargetPushFront(LRUTargetRemove(W, t), t)

\* The list as the code walks it: from most_recent_target along nexthotw
RECURSIVE WalkNext(_, _, _)
WalkNext(texs, t, fuel) ==
    IF t = NULL \/ fuel = 0 THEN << >>
    ELSE <<t>> \o WalkNext(texs, texs[t].nexthotw, fuel - 1)

LRUList(W) == WalkNext(W.tex, W.most_recent_target, NumTex + 1)

-----------------------------------------------------------------------------
(* Texture layout codec *)

ByteWidth(tx) == tx.textureWidth * (tx.bits \div 8)

\* A swizzle that never skips to the next row of tiles
SwizzleCopiesOneTileRow(tx) ==
    LET bytewidth == ByteWidth(tx)
        height == tx.size \div bytewidth
        rowblocks == bytewidth \div 16
    IN {<<4 * j + 32 * i + k, (j * rowblocks + i) * 4 + k>> :
            j \in 0..(height - 1), i \in 0..(rowblocks - 1), k \in 0..3}

\* The word copies of TextureSwizzle's loops, as <<destination word, source word>>
SwizzleCopies(tx) ==
    LET bytewidth == ByteWidth(tx)
        height == tx.size \div bytewidth
        rowblocks == bytewidth \div 16
        rowblocksadd == (rowblocks - 1) * 128
        blockaddress(j) == 16 * j + (j \div 8) * rowblocksadd
    IN {<<(blockaddress(j) \div 4) + 32 * i + k, (j * rowblocks + i) * 4 + k>> :
            j \in 0..(height - 1), i \in 0..(rowblocks - 1), k \in 0..3}

\* The word copies of TextureUnswizzle's loops
UnswizzleCopies(tx) ==
    LET bytewidth == ByteWidth(tx)
        height == tx.size \div bytewidth
        widthblocks == bytewidth \div 16
        heightblocks == height \div 8
        dstpitch == CDiv(bytewidth - 16, 4)
        dstrow == bytewidth * 8
    IN {<<((blocky * dstrow + blockx * 16) \div 4) + j * (4 + dstpitch) + k,
          ((blocky * widthblocks + blockx) * 8 + j) * 4 + k>> :
            blocky \in 0..(heightblocks - 1), blockx \in 0..(widthblocks - 1),
            j \in 0..7, k \in 0..3}

\* A fresh store of n words after the copies: a word no copy wrote holds g,
\* a word written twice holds the later copy (sources are read in order)
CopyWords(src, n, copies, g) ==
    [d \in 1..n |->
        LET hits == {c \in copies : c[1] = d - 1}
        IN IF hits = {} THEN g ELSE src[Max({c[2] : c \in hits}) + 1]]

Overruns(n, copies) == \E c \in copies : c[1] >= n

\* SDL_malloc: the address, or NoData when the allocation fails
SDL_malloc(W) == IF W.mleft > 0 THEN Sram ELSE NoData

AfterMalloc(W) == IF W.mleft > 0 THEN [W EXCEPT !.mleft = @ - 1] ELSE W

TextureSwizzle(W, t, dst) ==
    LET tx == W.tex[t]
        data == IF dst = NoData THEN SDL_malloc(W) ELSE dst
        W1 == IF dst = NoData THEN AfterMalloc(W) ELSE W
        n == tx.size \div 4
        copies == SwizzleCopies(tx)
    IN IF tx.swizzled THEN [W |-> W, ret |-> TRUE]
       ELSE IF data = NoData THEN [W |-> W1, ret |-> FALSE]
       ELSE [W |-> [W1 EXCEPT !.tex[t].pixels = CopyWords(tx.pixels, n, copies, W.g),
                              !.tex[t].data = data,
                              !.tex[t].swizzled = TRUE,
                              !.overrun = @ \/ Overruns(n, copies)],
             ret |-> TRUE]

TextureUnswizzle(W, t, dst) ==
    LET tx == W.tex[t]
        data == IF dst = NoData THEN SDL_malloc(W) ELSE dst
        W1 == IF dst = NoData THEN AfterMalloc(W) ELSE W
        n == tx.size \div 4
        copies == UnswizzleCopies(tx)
    IN IF ~tx.swizzled THEN [W |-> W, ret |-> TRUE]
       ELSE IF data = NoData THEN [W |-> W1, ret |-> FALSE]
       ELSE [W |-> [W1 EXCEPT !.tex[t].pixels = CopyWords(tx.pixels, n, copies, W.g),
                              !.tex[t].data = data,
                              !.tex[t].swizzled = FALSE,
                              !.overrun = @ \/ Overruns(n, copies)],
             ret |-> TRUE]

-----------------------------------------------------------------------------
(* Residency: spilling render targets to system memory and back *)

\* TextureSpillToSram copying the store to system memory as it is
TextureSpillToSramLinear(W, t) ==
    LET sdata == SDL_malloc(W)
    IN IF sdata = NoData THEN [W |-> AfterMalloc(W), ret |-> FALSE]
       ELSE [W |-> [AfterMalloc(W) EXCEPT !.tex[t].data = sdata], ret |-> TRUE]

TextureSpillToSram(W, t) ==
    IF W.tex[t].swizzled
    THEN LET sdata == SDL_malloc(W)
         IN IF sdata = NoData THEN [W |-> AfterMalloc(W), ret |-> FALSE]
            ELSE [W |-> [AfterMalloc(W) EXCEPT !.tex[t].data = sdata], ret |-> TRUE]
    ELSE TextureSwizzle(W, t, NoData)

TexturePromoteToVram(W, t, target) ==
    LET tdata == vramalloc(W, W.tex[t].size, W.policy)
    IN IF W.tex[t].swizzled /\ target THEN TextureUnswizzle(W, t, tdata)
       ELSE [W |-> [W EXCEPT !.tex[t].data = tdata], ret |-> TRUE]

\* TextureSpillLRU taking the victim off the list before its store is copied
TextureSpillLRUUnlinksFirst(W, wanted) ==
    LET lruT == W.least_recent_target
        Spilled(r) ==
            IF ~r.ret THEN [W |-> r.W, ret |-> FALSE]
            ELSE [W |-> [r.W EXCEPT !.spilled = Append(@, lruT)], ret |-> TRUE]
    IN IF lruT # NULL THEN Spilled(TextureSpillToSram(LRUTargetRemove(W, lruT), lruT))
       ELSE [W |-> W, ret |-> FALSE]

TextureSpillLRU(W, wanted) ==
    LET lruT == W.least_recent_target
        Spilled(r) ==
            IF ~r.ret THEN [W |-> r.W, ret |-> FALSE]
            ELSE [W |-> [LRUTargetRemove(r.W, lruT) EXCEPT !.spilled = Append(@, lruT)],
                  ret |-> TRUE]
    IN IF lruT # NULL THEN Spilled(TextureSpillToSram(W, lruT))
       ELSE [W |-> W, ret |-> FALSE]

\* TextureSpillTargetsForSpace giving up the search for room after one eviction
TextureSpillTargetsForSpaceOnce(W, size) ==
    IF vlargestblock(W) < size
    THEN [W |-> TextureSpillLRU(W, size).W, ret |-> TextureSpillLRU(W, size).ret]
    ELSE [W |-> W, ret |-> TRUE]

RECURSIVE TextureSpillTargetsForSpace(_, _)
TextureSpillTargetsForSpace(W, size) ==
    LET Again(r) == IF ~r.ret THEN [W |-> r.W, ret |-> FALSE]
                    ELSE TextureSpillTargetsForSpace(r.W, size)
    IN IF vlargestblock(W) < size THEN Again(TextureSpillLRU(W, size))
       ELSE [W |-> W, ret |-> TRUE]

\* TextureBindAsTarget linking the texture before it has room for it
TextureBindAsTargetLinksFirst(W, t) ==
    LET Promote(r1) == IF ~r1.ret THEN [W |-> r1.W, ret |-> FALSE]
                       ELSE TexturePromoteToVram(r1.W, t, TRUE)
    IN IF ~InVram(W.tex[t].data)
       THEN Promote(TextureSpillTargetsForSpace(LRUTargetBringFront(W, t), W.tex[t].size))
       ELSE [W |-> LRUTargetBringFront(W, t), ret |-> TRUE]

TextureBindAsTarget(W, t) ==
    LET Front(r2) == IF ~r2.ret THEN [W |-> r2.W, ret |-> FALSE]
                     ELSE [W |-> LRUTargetBringFront(r2.W, t), ret |-> TRUE]
        Promote(r1) == IF ~r1.ret THEN [W |-> r1.W, ret |-> FALSE]
                       ELSE Front(TexturePromoteToVram(r1.W, t, TRUE))
    IN IF ~InVram(W.tex[t].data)
       THEN Promote(TextureSpillTargetsForSpace(W, W.tex[t].size))
       ELSE [W |-> LRUTargetBringFront(W, t), ret |-> TRUE]

-----------------------------------------------------------------------------
(* PSP texture create / destroy *)

\* The memory the functions of one call start from
Mem(mleft, policy, g) ==
    [tex |-> tex, most_recent_target |-> lru.most_recent_target,
     least_recent_target |-> lru.least_recent_target,
     mleft |-> mleft, policy |-> policy, g |-> g, overrun |-> FALSE, spilled |-> << >>]

PspBits(format) ==
    IF format \in {"GU_PSM_5650", "GU_PSM_5551", "GU_PSM_4444"} THEN 16
    ELSE IF format = "GU_PSM_8888" THEN 32 ELSE 0

PSP_CreateTexture(W, t, w, h, sdlformat, access) ==
    LET format == PixelFormatToPSPFMT(sdlformat)
        Texture(textureWidth, textureHeight, pitch) ==
            [live |-> TRUE, access |-> access, w |-> w, h |-> h, sdlformat |-> sdlformat,
             data |-> NoData, pixels |-> << >>, size |-> textureHeight * pitch,
             width |-> w, height |-> h,
             textureWidth |-> textureWidth, textureHeight |-> textureHeight,
             bits |-> PspBits(format), format |-> format, pitch |-> pitch,
             swizzled |-> FALSE, prevhotw |-> NULL, nexthotw |-> NULL]
        \* the store of a target is a block of VRAM, as vramalloc left it
        InVramAt(W1, psp_texture, vdata) ==
            IF vdata = NoData THEN [W |-> W1, ret |-> FALSE]
            ELSE [W |-> LRUTargetPushFront(
                            [W1 EXCEPT !.tex[t] =
                                [psp_texture EXCEPT !.data = vdata,
                                    !.pixels = [i \in 1..(psp_texture.size \div 4) |-> W.g]]],
                            t),
                  ret |-> TRUE]
        Target(r, psp_texture) ==
            IF ~r.ret THEN [W |-> r.W, ret |-> FALSE]
            ELSE InVramAt(r.W, psp_texture, vramalloc(r.W, psp_texture.size, W.policy))
        \* the store of any other texture is SDL_calloc'ed
        Static(W0, psp_texture, sdata) ==
            IF sdata = NoData THEN [W |-> AfterMalloc(W0), ret |-> FALSE]
            ELSE [W |-> [AfterMalloc(W0) EXCEPT !.tex[t] =
                            [psp_texture EXCEPT !.data = sdata,
                                !.pixels = [i \in 1..(psp_texture.size \div 4) |-> 0]]],
                  ret |-> TRUE]
        \* W0: after the SDL_calloc of the PSP_TextureData
        Store(W0, psp_texture) ==
            IF SDL_malloc(W) = NoData THEN [W |-> W0, ret |-> FALSE]
            ELSE IF PspBits(format) = 0 THEN [W |-> W0, ret |-> FALSE]
            ELSE IF access = "target"
            THEN Target(TextureSpillTargetsForSpace(W0, psp_texture.size), psp_texture)
            ELSE Static(W0, psp_texture, SDL_malloc(W0))
        Sized(textureWidth, textureHeight) ==
            Store(AfterMalloc(W),
                  Texture(textureWidth, textureHeight,
                          textureWidth * SDL_BYTESPERPIXEL(sdlformat)))
    IN Sized(TextureNextPow2(w), TextureNextPow2(h))

\* PSP_DestroyTexture that unlinks the texture and leaves texture->internal set
PSP_DestroyTextureKeepsInternal(W, t) ==
    IF ~W.tex[t].live THEN W
    ELSE LRUTargetRemove(W, t)

PSP_DestroyTexture(W, t) ==
    IF ~W.tex[t].live THEN W
    ELSE [LRUTargetRemove(W, t) EXCEPT !.tex[t] = NoTexture]

\* TextureShouldSwizzle that does not look at where a target's store is
TextureShouldSwizzleAnyTier(tx) ==
    /\ tx.access # "streaming"
    /\ (tx.w >= 16 \/ tx.h >= 16)

TextureShouldSwizzle(tx) ==
    /\ ~(tx.access = "target" /\ InVram(tx.data))
    /\ tx.access # "streaming"
    /\ (tx.w >= 16 \/ tx.h >= 16)

\* The GU calls are appended to the list of calls; c is the command they belong to
Call(fn, arg, c) == [fn |-> fn, arg |-> arg, cmd |-> c]

TextureActivate(S, t, c) ==
    LET Image(W1) ==
            [S EXCEPT !.W = W1,
                      !.gu.teximage = t,
                      !.gu.calls = @ \o <<Call("sceGuTexMode", W1.tex[t].swizzled, c),
                                          Call("sceGuTexImage", t, c)>>]
    IN Image(IF TextureShouldSwizzle(S.W.tex[t]) THEN TextureSwizzle(S.W, t, NoData).W
             ELSE S.W)

-----------------------------------------------------------------------------
(* PSP blend state and command queue.  S is what one PSP_RunCommandQueue    *)
(* works on: the memory W, the renderer's blendState, displayListAvail and *)
(* boundTarget, the native GU state gu, and drawstate.color.               *)

BlendModes == {"NONE", "BLEND", "BLEND_PREMULTIPLIED", "ADD", "ADD_PREMULTIPLIED",
               "MOD", "MUL", "INVALID"}

\* The GU calls PSP_SetBlendState makes for a new blend mode
BlendModeCalls(mode, c) ==
    CASE mode = "NONE" ->
            <<Call("sceGuTexFunc", "GU_TFX_REPLACE", c), Call("sceGuDisable", "GU_BLEND", c)>>
      [] mode = "INVALID" -> << >>
      [] OTHER ->
            <<Call("sceGuTexFunc", "GU_TFX_MODULATE", c), Call("sceGuBlendFunc", mode, c),
              Call("sceGuEnable", "GU_BLEND", c)>>

SetTextureScaleMode(S, scaleMode, c) ==
    IF scaleMode \in {"PIXELART", "NEAREST"}
    THEN [S EXCEPT !.gu.calls = Append(@, Call("sceGuTexFilter", "GU_NEAREST", c))]
    ELSE IF scaleMode = "LINEAR"
    THEN [S EXCEPT !.gu.calls = Append(@, Call("sceGuTexFilter", "GU_LINEAR", c))]
    ELSE S

SetTextureAddressMode(S, u, v, c) ==
    [S EXCEPT !.gu.calls = Append(@, Call("sceGuTexWrap", <<u, v>>, c))]

PSP_SetBlendState(S, state, c) ==
    LET current == S.bs
        Mode(S0) ==
            IF state.mode # current.mode
            THEN [S0 EXCEPT !.gu.calls = @ \o BlendModeCalls(state.mode, c),
                            !.gu.blendfn = IF state.mode = "INVALID" THEN @ ELSE state.mode]
            ELSE S0
        Color(S1) ==
            IF state.color # current.color
            THEN [S1 EXCEPT !.gu.calls = Append(@, Call("sceGuColor", state.color, c))]
            ELSE S1
        ShadeModel(S2) ==
            IF state.shadeModel # current.shadeModel
            THEN [S2 EXCEPT !.gu.calls = Append(@, Call("sceGuShadeModel", state.shadeModel, c))]
            ELSE S2
        Texture(S3) ==
            IF state.texture # current.texture
            THEN IF state.texture # NULL
                 THEN [TextureActivate(S3, state.texture, c) EXCEPT
                          !.gu.calls = Append(@, Call("sceGuEnable", "GU_TEXTURE_2D", c)),
                          !.gu.texture2d = TRUE]
                 ELSE [S3 EXCEPT
                          !.gu.calls = Append(@, Call("sceGuDisable", "GU_TEXTURE_2D", c)),
                          !.gu.texture2d = FALSE]
            ELSE S3
        Sampling(S4) ==
            IF state.texture # NULL
            THEN SetTextureAddressMode(
                     SetTextureScaleMode(S4, state.texture_scale_mode, c),
                     state.texture_address_mode_u, state.texture_address_mode_v, c)
            ELSE S4
        Current(S5) == [S5 EXCEPT !.bs = state]
    IN Current(Sampling(Texture(ShadeModel(Color(Mode(S))))))

StartDrawing(S, target) ==
    LET Start(S0) ==
            IF ~S0.displayListAvail
            THEN [S0 EXCEPT !.gu.calls = Append(@, Call("sceGuStart", "GU_DIRECT", 0)),
                            !.displayListAvail = TRUE]
            ELSE S0
        Bound(S1, r) ==
            IF r.ret
            THEN [S1 EXCEPT !.W = r.W, !.bind = <<target, TRUE>>,
                            !.gu.drawbuffer = <<target, r.W.tex[target].data>>,
                            !.gu.calls = Append(@, Call("sceGuDrawBufferList", target, 0)),
                            !.boundTarget = target]
            ELSE [S1 EXCEPT !.W = r.W, !.bind = <<target, FALSE>>, !.boundTarget = target]
        Bind(S1) ==
            IF target # S1.boundTarget
            THEN IF target # NULL THEN Bound(S1, TextureBindAsTarget(S1.W, target))
                 ELSE [S1 EXCEPT !.gu.drawbuffer = <<NULL, NoData>>,
                                 !.gu.calls = Append(@, Call("sceGuDrawBufferList", NULL, 0)),
                                 !.boundTarget = target]
            ELSE S1
    IN Bind(Start(S))

\* The PSP_BlendState a draw command asks for
DrawBlendState(S, cmd, textured, shadeModel) ==
    [mode |-> cmd.blend, color |-> S.color, shadeModel |-> shadeModel,
     texture |-> IF textured THEN cmd.texture ELSE NULL,
     texture_scale_mode |-> IF textured THEN cmd.scale ELSE "INVALID",
     texture_address_mode_u |-> IF textured THEN cmd.addr ELSE "INVALID",
     texture_address_mode_v |-> IF textured THEN cmd.addr ELSE "INVALID"]

DrawArray(S, prim, count, c) ==
    [S EXCEPT !.gu.calls = Append(@, Call("sceGuDrawArray", <<prim, count>>, c))]

\* One iteration of the loop of PSP_RunCommandQueue: the case of cmd
PSP_Command(S, cmd, c) ==
    CASE cmd.command = "SETDRAWCOLOR" -> [S EXCEPT !.color = cmd.color]
      [] cmd.command = "SETVIEWPORT" ->
            [S EXCEPT !.gu.calls = @ \o <<Call("sceGuOffset", cmd.rect, c),
                                          Call("sceGuViewport", cmd.rect, c),
                                          Call("sceGuScissor", cmd.rect, c)>>]
      [] cmd.command = "SETCLIPRECT" ->
            IF cmd.enabled
            THEN [S EXCEPT !.gu.calls = @ \o <<Call("sceGuEnable", "GU_SCISSOR_TEST", c),
                                               Call("sceGuScissor", cmd.rect, c)>>]
            ELSE [S EXCEPT !.gu.calls = Append(@, Call("sceGuDisable", "GU_SCISSOR_TEST", c))]
      [] cmd.command = "CLEAR" ->
            [S EXCEPT !.gu.calls = @ \o <<Call("sceGuClearColor", cmd.color, c),
                                          Call("sceGuClearStencil", cmd.color, c),
                                          Call("sceGuClear", "GU_COLOR_BUFFER_BIT", c)>>]
      [] cmd.command = "DRAW_POINTS" ->
            DrawArray(PSP_SetBlendState(S, DrawBlendState(S, cmd, FALSE, "GU_FLAT"), c),
                      "GU_POINTS", cmd.count, c)
      [] cmd.command = "DRAW_LINES" ->
            DrawArray(PSP_SetBlendState(S, DrawBlendState(S, cmd, FALSE, "GU_FLAT"), c),
                      "GU_LINE_STRIP", cmd.count, c)
      [] cmd.command = "FILL_RECTS" ->
            DrawArray(PSP_SetBlendState(S, DrawBlendState(S, cmd, FALSE, "GU_FLAT"), c),
                      "GU_SPRITES", 2 * cmd.count, c)
      [] cmd.command = "COPY" ->
            DrawArray(PSP_SetBlendState(S, DrawBlendState(S, cmd, TRUE, "GU_SMOOTH"), c),
                      "GU_SPRITES", 2 * cmd.count, c)
      [] cmd.command = "COPY_EX" ->
            DrawArray(PSP_SetBlendState(S, DrawBlendState(S, cmd, TRUE, "GU_SMOOTH"), c),
                      "GU_TRIANGLE_FAN", 4, c)
      [] cmd.command = "GEOMETRY" ->
            IF cmd.texture = NULL
            THEN LET S1 == [S EXCEPT !.gu.calls = Append(@, Call("sceGuDisable", "GU_TEXTURE_2D", c))]
                     S2 == DrawArray(S1, "GU_TRIANGLES", cmd.count, c)
                 IN [S2 EXCEPT !.gu.calls = Append(@, Call("sceGuEnable", "GU_TEXTURE_2D", c)),
                               !.gu.texture2d = TRUE]
            ELSE DrawArray(PSP_SetBlendState(S, DrawBlendState(S, cmd, TRUE, "GU_SMOOTH"), c),
                           "GU_TRIANGLES", cmd.count, c)
      [] OTHER -> S

RECURSIVE PSP_CommandLoop(_, _, _)
PSP_CommandLoop(S, cmds, c) ==
    IF c > Len(cmds) THEN S
    ELSE PSP_CommandLoop(PSP_Command(S, cmds[c], c), cmds, c + 1)

\* PSP_RunCommandQueue: StartDrawing, the vertex buffer, then every command
PSP_RunCommandQueue(S, target, cmds, gpumem) ==
    LET Commands(S1) == IF ~gpumem THEN [S |-> S1, ret |-> FALSE]
                        ELSE [S |-> PSP_CommandLoop(S1, cmds, 1), ret |-> TRUE]
    IN Commands(StartDrawing([S EXCEPT !.color = 0, !.gu.calls = << >>], target))

-----------------------------------------------------------------------------
(* The Vita GXM renderer.  V is what its functions work on: d, the fields  *)
(* of VITA_GXM_RenderData; tex, the VITA_GXM_TextureData of the textures;  *)
(* calls, the native calls made so far, each with the index of the command *)
(* it was made for.  A shader program is a pair of names.                  *)

Rect(x, y, w, h) == [x |-> x, y |-> y, w |-> w, h |-> h]

NoProgram == <<"NULL", "NULL">>
colorVertexProgram == <<"vertex", "color">>
textureVertexProgram == <<"vertex", "texture">>
clearVertexProgram == <<"vertex", "clear">>
clearFragmentProgram == <<"fragment", "clear">>

GxmCall(V, fn, arg, c) == [V EXCEPT !.calls = Append(@, Call(fn, arg, c))]

\* The fragment_programs VITA_GXM_SetBlendMode selects for a blend mode
BlendFragmentPrograms(blendMode) ==
    CASE blendMode = "NONE" -> "blend_mode_none"
      [] blendMode = "BLEND" -> "blend_mode_blend"
      [] blendMode = "ADD" -> "blend_mode_add"
      [] blendMode = "MOD" -> "blend_mode_mod"
      [] blendMode = "MUL" -> "blend_mode_mul"
      [] OTHER -> "blend_mode_blend"

VITA_GXM_SetBlendMode(data, blendMode) ==
    IF blendMode # data.currentBlendMode
    THEN [data EXCEPT !.colorFragmentProgram = <<BlendFragmentPrograms(blendMode), "color">>,
                      !.textureFragmentProgram = <<BlendFragmentPrograms(blendMode), "texture">>,
                      !.currentBlendMode = blendMode]
    ELSE data

\* StartDrawing that begins the scene and keeps the cache of the scene before
VitaStartDrawingKeepsCache(V, target) ==
    IF V.d.drawing THEN V
    ELSE [GxmCall([V EXCEPT !.d.drawstate.last_command = "NONE",
                            !.d.drawstate.viewport_dirty = TRUE],
                  "sceGxmBeginScene", target, 0)
          EXCEPT !.d.drawing = TRUE]

\* StartDrawing of the Vita renderer: the cache is emptied and the scene begun
VitaStartDrawing(V, target) ==
    IF V.d.drawing THEN V
    ELSE [GxmCall([V EXCEPT !.d.drawstate.texture = NULL,
                            !.d.drawstate.vertex_program = NoProgram,
                            !.d.drawstate.fragment_program = NoProgram,
                            !.d.drawstate.last_command = "NONE",
                            !.d.drawstate.viewport_dirty = TRUE],
                  "sceGxmBeginScene", target, 0)
          EXCEPT !.d.drawing = TRUE]

\* The draw.count the queue functions record for count points or vertices
VITA_GXM_QueueDrawPoints(count) == count

\* A line list that records one vertex per point, as a line strip would
VITA_GXM_QueueDrawLinesStrip(count) == count

VITA_GXM_QueueDrawLines(count) == (count - 1) * 2

VITA_GXM_QueueGeometry(count) == count

PSP_QueueDrawPoints(count) == count

PSP_QueueGeometry(count) == count

\* VITA_GXM_RenderClear leaving the clip rectangle marked as applied
VITA_GXM_RenderClearCleansClip(V, cmd, c) ==
    LET V1 == GxmCall(V, "unset_clip_rectangle", 0, c)
        V2 == [V1 EXCEPT !.d.drawstate.fragment_program = clearFragmentProgram,
                         !.d.drawstate.vertex_program = clearVertexProgram]
        V3 == GxmCall(V2, "sceGxmSetVertexProgram", clearVertexProgram, c)
        V4 == GxmCall(V3, "sceGxmSetFragmentProgram", clearFragmentProgram, c)
        V5 == GxmCall(V4, "sceGxmReserveFragmentDefaultUniformBuffer", 0, c)
        V6 == GxmCall(V5, "sceGxmSetUniformDataF", "clearClearColorParam", c)
        V7 == GxmCall(V6, "sceGxmSetVertexStream", "clearVertices", c)
        V8 == GxmCall(V7, "sceGxmDraw", <<"TRIANGLES", 3>>, c)
    IN [V8 EXCEPT !.d.drawstate.cliprect_dirty = FALSE]

VITA_GXM_RenderClear(V, cmd, c) ==
    LET V1 == GxmCall(V, "unset_clip_rectangle", 0, c)
        V2 == [V1 EXCEPT !.d.drawstate.fragment_program = clearFragmentProgram,
                         !.d.drawstate.vertex_program = clearVertexProgram]
        V3 == GxmCall(V2, "sceGxmSetVertexProgram", clearVertexProgram, c)
        V4 == GxmCall(V3, "sceGxmSetFragmentProgram", clearFragmentProgram, c)
        V5 == GxmCall(V4, "sceGxmReserveFragmentDefaultUniformBuffer", 0, c)
        V6 == GxmCall(V5, "sceGxmSetUniformDataF", "clearClearColorParam", c)
        V7 == GxmCall(V6, "sceGxmSetVertexStream", "clearVertices", c)
        V8 == GxmCall(V7, "sceGxmDraw", <<"TRIANGLES", 3>>, c)
    IN [V8 EXCEPT !.d.drawstate.cliprect_dirty = TRUE]

ClampCliprectToViewport(clip, viewport) ==
    LET Left(cl) == IF cl.x < 0 THEN [cl EXCEPT !.w = @ + cl.x, !.x = 0] ELSE cl
        Top(cl) == IF cl.y < 0 THEN [cl EXCEPT !.h = @ + cl.y, !.y = 0] ELSE cl
        Right(cl, max_x_c, max_x_v) ==
            IF max_x_c > max_x_v THEN [cl EXCEPT !.w = @ - (max_x_v - max_x_c)] ELSE cl
        Bottom(cl, max_y_c, max_y_v) ==
            IF max_y_c > max_y_v THEN [cl EXCEPT !.h = @ - (max_y_v - max_y_c)] ELSE cl
        Clamp(cl) == Bottom(Right(cl, cl.x + cl.w, viewport.x + viewport.w),
                            cl.y + cl.h, viewport.y + viewport.h)
    IN Clamp(Top(Left(clip)))

\* SetDrawState rebinding the vertex program whether or not it changed
SetVertexProgramAlways(V, vertex_program, c) ==
    GxmCall([V EXCEPT !.d.drawstate.vertex_program = vertex_program],
            "sceGxmSetVertexProgram", vertex_program, c)

\* SetDrawState: the vertex program is set when it is not the cached one
SetVertexProgram(V, vertex_program, c) ==
    IF V.d.drawstate.vertex_program # vertex_program
    THEN GxmCall([V EXCEPT !.d.drawstate.vertex_program = vertex_program],
                 "sceGxmSetVertexProgram", vertex_program, c)
    ELSE V

\* SetDrawState rebinding the fragment program whether or not it changed
SetFragmentProgramAlways(V, fragment_program, c) ==
    GxmCall([V EXCEPT !.d.drawstate.fragment_program = fragment_program],
            "sceGxmSetFragmentProgram", fragment_program, c)

\* SetDrawState: the fragment program is set when it is not the cached one
SetFragmentProgram(V, fragment_program, c) ==
    IF V.d.drawstate.fragment_program # fragment_program
    THEN GxmCall([V EXCEPT !.d.drawstate.fragment_program = fragment_program],
                 "sceGxmSetFragmentProgram", fragment_program, c)
    ELSE V

\* SetDrawState setting the native viewport whether or not it is dirty
SetViewportAlways(V, c) ==
    [GxmCall(V, "sceGxmSetViewport", V.d.drawstate.viewport, c)
     EXCEPT !.d.drawstate.viewport_dirty = FALSE]

\* SetDrawState: the native viewport is set when the cached one is dirty
SetViewport(V, c) ==
    IF V.d.drawstate.viewport_dirty
    THEN [GxmCall(V, "sceGxmSetViewport", V.d.drawstate.viewport, c)
          EXCEPT !.d.drawstate.viewport_dirty = FALSE]
    ELSE V

SetDrawState(V, cmd, c) ==
    LET matrix_updated == /\ V.d.drawstate.viewport_dirty
                          /\ V.d.drawstate.viewport.w # 0 /\ V.d.drawstate.viewport.h # 0
        Viewport(V0) == SetViewport(V0, c)
        ClipEnabled(V1) ==
            IF V1.d.drawstate.cliprect_enabled_dirty
            THEN [(IF ~V1.d.drawstate.cliprect_enabled
                   THEN GxmCall(V1, "unset_clip_rectangle", 0, c) ELSE V1)
                  EXCEPT !.d.drawstate.cliprect_enabled_dirty = FALSE]
            ELSE V1
        SetClip(V2, rect) ==
            [GxmCall(V2, "set_clip_rectangle",
                     <<rect.x, rect.y, rect.x + rect.w, rect.y + rect.h>>, c)
             EXCEPT !.d.drawstate.cliprect_dirty = FALSE]
        ClipRect(V2, ds) ==
            IF (ds.cliprect_enabled \/ ds.viewport_is_set) /\ ds.cliprect_dirty
            THEN SetClip(V2, IF ds.viewport_is_set
                             THEN ClampCliprectToViewport(ds.cliprect, ds.viewport)
                             ELSE ds.cliprect)
            ELSE V2
        Clip(V2) == ClipRect(V2, V2.d.drawstate)
        Blend(V3) == [V3 EXCEPT !.d = VITA_GXM_SetBlendMode(@, cmd.blend)]
        Uniforms(V5, updated) ==
            IF updated
            THEN GxmCall(GxmCall(V5, "sceGxmReserveVertexDefaultUniformBuffer", 0, c),
                         "sceGxmSetUniformDataF",
                         IF V5.d.drawstate.fragment_program = V5.d.textureFragmentProgram
                         THEN "textureWvpParam" ELSE "colorWvpParam", c)
            ELSE V5
        Programs(V4, vertex_program, fragment_program) ==
            Uniforms(SetFragmentProgram(SetVertexProgram(V4, vertex_program, c),
                                        fragment_program, c),
                     \/ V4.d.drawstate.vertex_program # vertex_program
                     \/ V4.d.drawstate.fragment_program # fragment_program
                     \/ matrix_updated)
        Program(V4) ==
            IF cmd.texture # NULL
            THEN Programs(V4, textureVertexProgram, V4.d.textureFragmentProgram)
            ELSE Programs(V4, colorVertexProgram, V4.d.colorFragmentProgram)
        Filters(V6) ==
            IF cmd.texture # NULL /\ cmd.scale # V6.tex[cmd.texture].scale_mode
            THEN [(IF cmd.scale \in {"PIXELART", "NEAREST"}
                   THEN GxmCall(V6, "gxm_texture_set_filters", "POINT", c)
                   ELSE IF cmd.scale = "LINEAR"
                        THEN GxmCall(V6, "gxm_texture_set_filters", "LINEAR", c)
                        ELSE V6)
                  EXCEPT !.tex[cmd.texture].scale_mode = cmd.scale]
            ELSE V6
        AddressMode(V7) ==
            IF cmd.texture # NULL /\ (\/ cmd.addr # V7.tex[cmd.texture].address_mode_u
                                      \/ cmd.addr # V7.tex[cmd.texture].address_mode_v)
            THEN [GxmCall(V7, "gxm_texture_set_address_mode", cmd.addr, c)
                  EXCEPT !.tex[cmd.texture].address_mode_u = cmd.addr,
                         !.tex[cmd.texture].address_mode_v = cmd.addr]
            ELSE V7
        Texture(V8) ==
            IF cmd.texture # V8.d.drawstate.texture
            THEN [(IF cmd.texture # NULL
                   THEN GxmCall(V8, "sceGxmSetFragmentTexture", cmd.texture, c) ELSE V8)
                  EXCEPT !.d.drawstate.texture = cmd.texture]
            ELSE V8
    IN GxmCall(Texture(AddressMode(Filters(Program(Blend(Clip(ClipEnabled(Viewport(V)))))))),
               "sceGxmSetVertexStream", c, c)

IsDraw(cmd) == cmd.command \in {"DRAW_POINTS", "DRAW_LINES", "GEOMETRY"}

\* A batch that takes every next command of the same type, whatever it draws with
RECURSIVE FinalCmdSameType(_, _, _)
FinalCmdSameType(cmds, first, nextcmd) ==
    IF nextcmd > Len(cmds) THEN nextcmd - 1
    ELSE IF cmds[nextcmd].command # cmds[first].command THEN nextcmd - 1
    ELSE FinalCmdSameType(cmds, first, nextcmd + 1)

\* The inner loop of the draw case: finalcmd, from the candidate nextcmd on
RECURSIVE FinalCmd(_, _, _)
FinalCmd(cmds, first, nextcmd) ==
    IF nextcmd > Len(cmds) THEN nextcmd - 1
    ELSE IF cmds[nextcmd].command # cmds[first].command THEN nextcmd - 1
    ELSE IF \/ cmds[nextcmd].texture # cmds[first].texture
            \/ cmds[nextcmd].blend # cmds[first].blend THEN nextcmd - 1
    ELSE FinalCmd(cmds, first, nextcmd + 1)

RECURSIVE SumCount(_, _, _)
SumCount(cmds, from, to) ==
    IF from > to THEN 0 ELSE cmds[from].count + SumCount(cmds, from + 1, to)

\* The draw case that leaves the polygon mode of a line batch in force
VitaDrawKeepsLineMode(V, cmds, first, final) ==
    LET thiscmdtype == cmds[first].command
        Mode(V1) ==
            IF thiscmdtype = "DRAW_POINTS"
            THEN GxmCall(V1, "sceGxmSetFrontPolygonMode", "POINT", first)
            ELSE IF thiscmdtype = "DRAW_LINES"
                 THEN GxmCall(V1, "sceGxmSetFrontPolygonMode", "LINE", first)
                 ELSE V1
        Draw(V2) ==
            GxmCall(V2, "sceGxmDraw",
                    <<IF thiscmdtype = "DRAW_POINTS" THEN "POINTS"
                      ELSE IF thiscmdtype = "DRAW_LINES" THEN "LINES" ELSE "TRIANGLES",
                      SumCount(cmds, first, final)>>, first)
        Fill(V3) ==
            IF thiscmdtype = "DRAW_POINTS"
            THEN GxmCall(V3, "sceGxmSetFrontPolygonMode", "TRIANGLE_FILL", first)
            ELSE V3
    IN Fill(Draw(Mode(SetDrawState(V, cmds[first], first))))

\* The draw case of VITA_GXM_RunCommandQueue for the batch first..final
VitaDraw(V, cmds, first, final) ==
    LET thiscmdtype == cmds[first].command
        Mode(V1) ==
            IF thiscmdtype = "DRAW_POINTS"
            THEN GxmCall(V1, "sceGxmSetFrontPolygonMode", "POINT", first)
            ELSE IF thiscmdtype = "DRAW_LINES"
                 THEN GxmCall(V1, "sceGxmSetFrontPolygonMode", "LINE", first)
                 ELSE V1
        Draw(V2) ==
            GxmCall(V2, "sceGxmDraw",
                    <<IF thiscmdtype = "DRAW_POINTS" THEN "POINTS"
                      ELSE IF thiscmdtype = "DRAW_LINES" THEN "LINES" ELSE "TRIANGLES",
                      SumCount(cmds, first, final)>>, first)
        Fill(V3) ==
            IF thiscmdtype \in {"DRAW_POINTS", "DRAW_LINES"}
            THEN GxmCall(V3, "sceGxmSetFrontPolygonMode", "TRIANGLE_FILL", first)
            ELSE V3
    IN Fill(Draw(Mode(SetDrawState(V, cmds[first], first))))

VitaSetViewport(V, rect) ==
    LET ds == V.d.drawstate
        is_set == rect.x # 0 \/ rect.y # 0 \/ rect.w # ds.drawablew \/ rect.h # ds.drawableh
        ds1 == [ds EXCEPT !.viewport = rect, !.viewport_dirty = TRUE,
                          !.cliprect_dirty = TRUE, !.viewport_is_set = is_set]
        ds2 == IF ~ds1.cliprect_enabled
               THEN IF is_set THEN [ds1 EXCEPT !.cliprect = Rect(0, 0, rect.w, rect.h)]
                    ELSE [ds1 EXCEPT !.cliprect_enabled_dirty = TRUE]
               ELSE ds1
    IN IF ds.viewport # rect THEN [V EXCEPT !.d.drawstate = ds2] ELSE V

VitaSetClipRect(V, rect, enabled) ==
    LET ds == V.d.drawstate
        ds1 == IF ds.cliprect_enabled # enabled
               THEN LET e == [ds EXCEPT !.cliprect_enabled = enabled,
                                        !.cliprect_enabled_dirty = TRUE]
                    IN IF ~enabled /\ ds.viewport_is_set
                       THEN [e EXCEPT !.cliprect = Rect(0, 0, ds.viewport.w, ds.viewport.h)]
                       ELSE e
               ELSE ds
        ds2 == IF ds1.cliprect # rect
               THEN [ds1 EXCEPT !.cliprect = rect, !.cliprect_dirty = TRUE] ELSE ds1
    IN [V EXCEPT !.d.drawstate = ds2]

\* The commands a batch starting at c merges: c..FinalCmd
VitaFinal(cmds, c) == IF IsDraw(cmds[c]) THEN FinalCmd(cmds, c, c + 1) ELSE c

\* The loop iteration with a Clear that is elided when the command before it was one
VITA_GXM_CommandElidesClear(V, cmds, c) ==
    LET cmd == cmds[c]
        V1 == CASE cmd.command = "SETVIEWPORT" -> VitaSetViewport(V, cmd.rect)
                [] cmd.command = "SETCLIPRECT" -> VitaSetClipRect(V, cmd.rect, cmd.enabled)
                [] cmd.command = "CLEAR" ->
                       IF V.d.drawstate.last_command = "CLEAR" THEN V
                       ELSE VITA_GXM_RenderClear(V, cmd, c)
                [] IsDraw(cmd) -> VitaDraw(V, cmds, c, VitaFinal(cmds, c))
                [] OTHER -> V
    IN [V1 EXCEPT !.d.drawstate.last_command = cmds[VitaFinal(cmds, c)].command]

\* One iteration of the loop of VITA_GXM_RunCommandQueue: the case of cmds[c]
VITA_GXM_Command(V, cmds, c) ==
    LET cmd == cmds[c]
        V1 == CASE cmd.command = "SETVIEWPORT" -> VitaSetViewport(V, cmd.rect)
                [] cmd.command = "SETCLIPRECT" -> VitaSetClipRect(V, cmd.rect, cmd.enabled)
                [] cmd.command = "CLEAR" -> VITA_GXM_RenderClear(V, cmd, c)
                [] IsDraw(cmd) -> VitaDraw(V, cmds, c, VitaFinal(cmds, c))
                [] OTHER -> V
    IN [V1 EXCEPT !.d.drawstate.last_command = cmds[VitaFinal(cmds, c)].command]

RECURSIVE VITA_GXM_CommandLoop(_, _, _)
VITA_GXM_CommandLoop(V, cmds, c) ==
    IF c > Len(cmds) THEN V
    ELSE VITA_GXM_CommandLoop(VITA_GXM_Command(V, cmds, c), cmds, VitaFinal(cmds, c) + 1)

\* VITA_GXM_RunCommandQueue returning with the scene still open
VITA_GXM_RunCommandQueueLeavesScene(V, target, w, h, cmds) ==
    LET V1 == [VitaStartDrawing(V, target) EXCEPT !.d.drawstate.target = target]
        ds == V1.d.drawstate
        V2 == IF w # ds.drawablew \/ h # ds.drawableh
              THEN [V1 EXCEPT !.d.drawstate.viewport_dirty = TRUE,
                              !.d.drawstate.cliprect_dirty = TRUE,
                              !.d.drawstate.drawablew = w,
                              !.d.drawstate.drawableh = h]
              ELSE V1
    IN VITA_GXM_CommandLoop(V2, cmds, 1)

\* VITA_GXM_RunCommandQueue on the window (w, h are its size in pixels) or on target
VITA_GXM_RunCommandQueue(V, target, w, h, cmds) ==
    LET V1 == [VitaStartDrawing(V, target) EXCEPT !.d.drawstate.target = target]
        ds == V1.d.drawstate
        V2 == IF w # ds.drawablew \/ h # ds.drawableh
              THEN [V1 EXCEPT !.d.drawstate.viewport_dirty = TRUE,
                              !.d.drawstate.cliprect_dirty = TRUE,
                              !.d.drawstate.drawablew = w,
                              !.d.drawstate.drawableh = h]
              ELSE V1
        V3 == VITA_GXM_CommandLoop(V2, cmds, 1)
    IN [GxmCall(V3, "sceGxmEndScene", 0, 0) EXCEPT !.d.drawing = FALSE]

\* VITA_GXM_TextureData after VITA_GXM_CreateTexture
VitaTexture ==
    [scale_mode |-> "INVALID", address_mode_u |-> "INVALID", address_mode_v |-> "INVALID"]

\* VITA_GXM_RenderData after VITA_GXM_CreateRenderer: the zeroes of SDL_calloc, and the
\* blend programs gxm_init leaves selected (it may or may not record their mode)
VitaRenderData(blendMode) ==
    [drawing |-> FALSE, currentBlendMode |-> blendMode,
     colorFragmentProgram |-> <<"blend_mode_blend", "color">>,
     textureFragmentProgram |-> <<"blend_mode_blend", "texture">>,
     drawstate |-> [viewport |-> Rect(0, 0, 0, 0), viewport_dirty |-> FALSE,
                    viewport_is_set |-> FALSE, cliprect_enabled_dirty |-> FALSE,
                    cliprect_enabled |-> FALSE, cliprect_dirty |-> FALSE,
                    cliprect |-> Rect(0, 0, 0, 0), texture |-> NULL, target |-> NULL,
                    vertex_program |-> NoProgram, fragment_program |-> NoProgram,
                    last_command |-> "NO_OP", drawablew |-> 0, drawableh |-> 0]]

-----------------------------------------------------------------------------
(* The PSP renderer as a state machine *)

\* What the environment can do in one call
MallocBudgets == {0, 1, NumTex + 1}
Policies == {"low"}

\* Blend state after PSP_CreateRenderer: calloc, then ResetBlendState
\* (the colour 0xffffffff is -1 as a 32-bit integer)
InitBlendState ==
    [mode |-> "INVALID", color |-> -1, shadeModel |-> "GU_SMOOTH", texture |-> NULL,
     texture_scale_mode |-> "NEAREST", texture_address_mode_u |-> "AUTO",
     texture_address_mode_v |-> "AUTO"]

InitGu ==
    [calls |-> << >>, texture2d |-> FALSE, blendfn |-> "default", teximage |-> NULL,
     drawbuffer |-> <<NULL, NoData>>]

NoOp == [op |-> "none", ret |-> TRUE, spilled |-> << >>, bind |-> <<NULL, FALSE>>,
         overrun |-> FALSE, swizzled |-> FALSE]

\* VITA_GXM_CreateRenderer: SDL_calloc leaves pool_index and current_pool 0
NoPool ==
    [pool_index |-> 0, current_pool |-> 0, backBufferIndex |-> 0, frontBufferIndex |-> 0,
     spans |-> << >>, before |-> << >>, presents |-> 0,
     op |-> "none", ok |-> TRUE, vertex |-> NULL, wrote |-> 0, fault |-> "none"]

\* The PSP driver is the one in use and nothing has been queued
\* No GPU work was submitted and no texture operation made
NoGpu ==
    [inflight |-> {}, op |-> "none", t |-> NULL, ret |-> TRUE, sdlformat |-> "ABGR8888",
     target |-> FALSE, pending |-> FALSE, swizzled |-> FALSE]

\* The WinRT video driver before any window: WINRT_GlobalSDLWindow is NULL and no
\* SDL_Window has driver data; status tells the windows the application has
\* (fresh, failed: a create returned false, exists, gone: destroyed)
MaxWindows == 3
Windows == 1..MaxWindows
NoWinRT ==
    [WINRT_GlobalSDLWindow |-> NULL,
     internal |-> [w \in Windows |-> FALSE],
     status |-> [w \in Windows |-> "fresh"],
     op |-> "none", window |-> NULL, ret |-> TRUE, error |-> "none"]

NoQueue ==
    /\ driver = "PSP"
    /\ queue = << >>
    /\ ran = << >>
    /\ vita = VitaRenderData("NONE")
    /\ vitaTex = << >>
    /\ gxm = << >>
    /\ pool = NoPool
    /\ gpu = NoGpu
    /\ winrt = NoWinRT

PspInit ==
    /\ tex = [t \in T |-> NoTexture]
    /\ lru = [most_recent_target |-> NULL, least_recent_target |-> NULL]
    /\ boundTarget = NULL
    /\ displayListAvail = FALSE
    /\ blendState = InitBlendState
    /\ gu = InitGu
    /\ useOrder = << >>
    /\ lastOp = NoOp
    /\ orig = << >>
    /\ NoQueue

\* The history of uses: an entry per target in VRAM, the last use first
Without(seq, t) == SelectSeq(seq, LAMBDA x : x.t # t)
Used(t, ev) == [t |-> t, ev |-> ev]
Resident(W, seq) == SelectSeq(seq, LAMBDA x : InVram(W.tex[x.t].data))

\* SDL_CreateTexture -> PSP_CreateTexture on a free SDL_Texture
CreateTexture(t, shape, access, env) ==
    /\ ~tex[t].live
    /\ \E mleft \in env.mleft, policy \in Policies, g \in env.g :
         \E r \in {PSP_CreateTexture(Mem(mleft, policy, g), t, shape.w, shape.h,
                                     shape.format, access)} :
            /\ tex' = r.W.tex
            /\ lru' = [most_recent_target |-> r.W.most_recent_target,
                       least_recent_target |-> r.W.least_recent_target]
            /\ useOrder' = Resident(r.W, IF r.ret /\ access = "target"
                                          THEN <<Used(t, "create")>> \o useOrder ELSE useOrder)
            /\ lastOp' = [NoOp EXCEPT !.op = "create", !.ret = r.ret, !.spilled = r.W.spilled,
                                      !.overrun = r.W.overrun]
    /\ UNCHANGED <<boundTarget, displayListAvail, blendState, gu, orig, queueVars, vitaVars, gpu, winrt>>

\* SDL_DestroyTexture -> PSP_DestroyTexture
DestroyTexture(t) ==
    /\ tex[t].live
    /\ \E W \in {PSP_DestroyTexture(Mem(0, "low", 0), t)} :
          /\ tex' = W.tex
          /\ lru' = [most_recent_target |-> W.most_recent_target,
                     least_recent_target |-> W.least_recent_target]
    /\ useOrder' = Without(useOrder, t)
    /\ lastOp' = [NoOp EXCEPT !.op = "destroy"]
    /\ UNCHANGED <<boundTarget, displayListAvail, blendState, gu, orig, queueVars, vitaVars, gpu, winrt>>

\* The textures a queue draws with exist
QueueOk(cmds) ==
    \A i \in 1..Len(cmds) : cmds[i].texture # NULL => tex[cmds[i].texture].live

\* SDL_FlushRenderCommands -> PSP_RunCommandQueue; target is renderer->target, which
\* SDL_SetRenderTarget keeps (PSP_SetRenderTarget itself does nothing)
RunCommandQueue(target, cmds, env, trace) ==
    /\ driver = "PSP"
    /\ target # NULL => tex[target].live /\ tex[target].access = "target"
    /\ QueueOk(cmds)
    /\ \E mleft \in env.mleft, policy \in Policies, g \in env.g, gpumem \in env.gpumem :
         LET S0 == [W |-> Mem(mleft, policy, g), bs |-> blendState, gu |-> gu, color |-> 0,
                    displayListAvail |-> displayListAvail, boundTarget |-> boundTarget,
                    bind |-> <<NULL, FALSE>>]
         IN \E r \in {PSP_RunCommandQueue(S0, target, cmds, gpumem)} : \E S \in {r.S} :
            /\ tex' = S.W.tex
            /\ lru' = [most_recent_target |-> S.W.most_recent_target,
                       least_recent_target |-> S.W.least_recent_target]
            /\ boundTarget' = S.boundTarget
            /\ displayListAvail' = S.displayListAvail
            /\ blendState' = S.bs
            /\ gu' = IF trace THEN S.gu ELSE InitGu
            /\ useOrder' = Resident(S.W, IF S.bind[2]
                                          THEN <<Used(S.bind[1], "bind")>> \o Without(useOrder, S.bind[1])
                                          ELSE useOrder)
            /\ lastOp' = [NoOp EXCEPT !.op = "run", !.ret = r.ret, !.spilled = S.W.spilled,
                                      !.bind = S.bind, !.overrun = S.W.overrun]
    /\ queue' = << >>
    /\ ran' = IF trace THEN cmds ELSE << >>
    /\ UNCHANGED <<orig, driver, vitaVars, gpu, winrt>>

RenderPresent ==
    /\ displayListAvail
    /\ displayListAvail' = FALSE
    /\ lastOp' = [NoOp EXCEPT !.op = "present"]
    /\ UNCHANGED <<tex, lru, boundTarget, blendState, gu, useOrder, orig, queueVars, vitaVars, gpu, winrt>>

-----------------------------------------------------------------------------
(* Residency specification: textures are created, bound as render targets, *)
(* sampled from, and destroyed.                                            *)

Shape(w, h, format) == [w |-> w, h |-> h, format |-> format]

\* Targets of 128, 64 and 512 bytes; the second is tall enough to be swizzled
TargetShapes == {Shape(4, 8, "ABGR8888"), Shape(2, 16, "BGR565"), Shape(8, 16, "ABGR8888")}
StaticShapes == {Shape(4, 4, "BGR565")}

Cmd(command, texture, blend, count) ==
    [command |-> command, texture |-> texture, blend |-> blend, count |-> count,
     color |-> 0, scale |-> "NEAREST", addr |-> "CLAMP"]

\* A frame draws a point, after a copy from at most one texture
SampleQueues ==
    {<<Cmd("DRAW_POINTS", NULL, "BLEND", 1)>>} \cup
    {<<Cmd("COPY", t, "BLEND", 1), Cmd("DRAW_POINTS", NULL, "BLEND", 1)>> : t \in T}

\* The memory is zeroed, malloc fails at once, after one block or never, and the
\* vertex buffer is always there
ResidencyEnv == [g |-> {0}, mleft |-> MallocBudgets, gpumem |-> {TRUE}]

Init == PspInit

Next ==
    \/ \E t \in T, shape \in TargetShapes : CreateTexture(t, shape, "target", ResidencyEnv)
    \/ \E t \in T, shape \in StaticShapes : CreateTexture(t, shape, "static", ResidencyEnv)
    \/ \E t \in T : DestroyTexture(t)
    \/ \E t \in T \cup {NULL}, cmds \in SampleQueues : RunCommandQueue(t, cmds, ResidencyEnv, FALSE)

Spec == Init /\ [][Next]_vars

-----------------------------------------------------------------------------
(* Properties of the residency manager *)

Now == Mem(0, "low", 0)
IsTarget(t) == tex[t].live /\ tex[t].access = "target"
ResidentTargets == {t \in T : IsTarget(t) /\ InVram(tex[t].data)}
UseTargets == [i \in 1..Len(useOrder) |-> useOrder[i].t]
\* The last n entries of a sequence, the last one first
LastFirst(seq, n) == [i \in 1..n |-> seq[Len(seq) - i + 1]]

\* C1 (as the code has it): the list is the resident targets in the order of their
\* last use, where a use is the creation or a successful bind as render target and
\* never a sampling read; every eviction spills the least recently used ones, the
\* least recent first; no two resident targets share a place.
C1_ListIsUseOrder == LRUList(Now) = UseTargets
C1_Evicts ==
    LET n == Len(lastOp'.spilled)
    IN /\ n <= Len(useOrder)
       /\ lastOp'.spilled = LastFirst(UseTargets, n)
C1_LruByCreateOrBind == [](C1_ListIsUseOrder) /\ [][C1_Evicts]_vars

\* C1 witness: one bind spilled two targets to bring its own back into VRAM
C1_Witness ==
    /\ Len(lastOp.spilled) = 2
    /\ lastOp.bind[2]

\* C1 as stated: a spilled target is the resident target whose last bind is the
\* oldest: it was bound, and no other resident target had its last bind before it.
BoundAt(i) == useOrder[i].ev = "bind"
C1_EvictsOldestBind ==
    lastOp'.spilled # << >> =>
        \E i \in 1..Len(useOrder) :
            /\ useOrder[i].t = lastOp'.spilled[1]
            /\ BoundAt(i)
            /\ \A j \in 1..Len(useOrder) : BoundAt(j) => j <= i
C1_LruByBindOnly == [][C1_EvictsOldestBind]_vars

\* C2: after a TextureBindAsTarget(tex) that returned true, tex is in VRAM and is
\* most_recent_target; a bind of the texture that is most_recent_target already
\* leaves every link of the list as it was.
C2_Bound ==
    lastOp.bind[2] =>
        /\ InVram(tex[lastOp.bind[1]].data)
        /\ lru.most_recent_target = lastOp.bind[1]
C2_Rebind ==
    (lastOp'.bind[2] /\ lru.most_recent_target = lastOp'.bind[1]) =>
        /\ lru' = lru
        /\ \A t \in T : /\ tex'[t].prevhotw = tex[t].prevhotw
                         /\ tex'[t].nexthotw = tex[t].nexthotw
C2_BindMakesMostRecent == [](C2_Bound) /\ [][C2_Rebind]_vars

\* C2 witness: a bind returned true after it spilled another target to promote its own
C2_Witness ==
    /\ lastOp.bind[2]
    /\ lastOp.spilled # << >>
    /\ Len(LRUList(Now)) >= 2

\* C3: a texture is reachable from most_recent_target along nexthotw iff it is a
\* live target whose store is in VRAM, no texture is reachable twice, and a
\* destroyed texture is linked to nothing and nothing is linked to it.
C3_ListIsResidentTargets ==
    /\ {LRUList(Now)[i] : i \in 1..Len(LRUList(Now))} = ResidentTargets
    /\ Len(LRUList(Now)) = Cardinality(ResidentTargets)
    /\ \A t \in T : ~tex[t].live =>
           /\ tex[t].prevhotw = NULL /\ tex[t].nexthotw = NULL
           /\ \A u \in T : tex[u].prevhotw # t /\ tex[u].nexthotw # t
           /\ lru.most_recent_target # t /\ lru.least_recent_target # t

\* C3 witness: a texture was destroyed and the list still holds two targets, while
\* another live target is spilled to system memory
C3_Witness ==
    /\ lastOp.op = "destroy"
    /\ \E t \in T : ~tex[t].live
    /\ Len(LRUList(Now)) >= 1
    /\ \E t \in T : IsTarget(t) /\ ~InVram(tex[t].data)


\* The last operation was a pass whose bind of the render target returned false
FailedBind(op) == op.op = "run" /\ op.bind[1] # NULL /\ ~op.bind[2]

\* C12 (as claimed): when TextureBindAsTarget returns false in a pass, the pass
\* (PSP_RunCommandQueue, the call that made the bind) returns failure.
C12_FailedBindIsReported == FailedBind(lastOp) => ~lastOp.ret

\* C13: after a TextureBindAsTarget(tex) that returned false, tex's store is the one
\* it had before the call, in system memory, and tex is not in the LRU list.
C13_StillInSram ==
    FailedBind(lastOp) =>
        /\ ~InVram(tex[lastOp.bind[1]].data)
        /\ \A i \in DOMAIN LRUList(Now) : LRUList(Now)[i] # lastOp.bind[1]
C13_SameStore ==
    FailedBind(lastOp') =>
        /\ ~InVram(tex[lastOp'.bind[1]].data)
        /\ tex'[lastOp'.bind[1]] = tex[lastOp'.bind[1]]
C13_FailedBindKeepsTier == [](C13_StillInSram) /\ [][C13_SameStore]_vars

\* C13 witness: a bind returned false after it had spilled another target
C13_Witness ==
    /\ FailedBind(lastOp)
    /\ lastOp.spilled # << >>
    /\ tex[lastOp.bind[1]].data = Sram

\* A render target that goes from VRAM to system memory in this step
Evicted(t) ==
    /\ IsTarget(t) /\ InVram(tex[t].data)
    /\ tex'[t].live /\ ~InVram(tex'[t].data)
\* A render target that goes from system memory to VRAM in this step
Promoted(t) ==
    /\ IsTarget(t) /\ ~InVram(tex[t].data)
    /\ tex'[t].live /\ InVram(tex'[t].data)

\* C21 (as the code has it): an evicted target is held in system memory in swizzled
\* layout, and a target promoted to VRAM to be bound is held there in linear layout.
C21_SpillSwizzlesPromoteUnswizzles ==
    [][\A t \in T :
          /\ Evicted(t) => tex'[t].data = Sram /\ tex'[t].swizzled
          /\ Promoted(t) => ~tex'[t].swizzled /\ lastOp'.bind = <<t, TRUE>>]_vars

\* C21 witness: a pass bound a target that had been evicted, and evicted another
\* target to make room for it: the one is linear in VRAM, the other swizzled in
\* system memory
C21_Witness ==
    /\ lastOp.op = "run" /\ lastOp.bind[1] # NULL /\ lastOp.bind[2]
    /\ lastOp.spilled # << >>
    /\ InVram(tex[lastOp.bind[1]].data) /\ ~tex[lastOp.bind[1]].swizzled
    /\ \A i \in DOMAIN lastOp.spilled :
          /\ tex[lastOp.spilled[i]].data = Sram
          /\ tex[lastOp.spilled[i]].swizzled

\* C21 (as claimed): an evicted target that was swizzled is linear in system memory,
\* and a target promoted to VRAM to be bound is swizzled there.
C21_SpillLinearPromoteTiled ==
    [][\A t \in T :
          /\ (Evicted(t) /\ tex[t].swizzled) => ~tex'[t].swizzled
          /\ Promoted(t) => tex'[t].swizzled]_vars

\* A create or a bind that failed
FailedRequest(op) == (op.op = "create" /\ ~op.ret) \/ FailedBind(op)
\* The targets a request spilled
SpilledBy(op) == {op.spilled[i] : i \in DOMAIN op.spilled}

\* C22 (as the code has it): a victim leaves the list only when its store has been
\* copied to system memory; a request that fails leaves the list as it was but for
\* the victims it had already evicted, which stay evicted, and every other texture
\* where it was.
C22_FailedRequestKeepsEvictions ==
    [][FailedRequest(lastOp') =>
          /\ LRUList(Now)' = SelectSeq(LRUList(Now), LAMBDA t : t \notin SpilledBy(lastOp'))
          /\ \A t \in SpilledBy(lastOp') : InVram(tex[t].data) /\ tex'[t].data = Sram
          /\ \A t \in T \ SpilledBy(lastOp') : tex'[t].data = tex[t].data]_vars

\* C22 witness: a bind failed on the copy of its second victim: the first victim is
\* evicted, the second is still in VRAM and on the list
C22_Witness ==
    /\ FailedBind(lastOp) /\ lastOp.spilled # << >>
    /\ lru.least_recent_target # NULL
    /\ InVram(tex[lru.least_recent_target].data)

\* C22 (as claimed): a create or bind that fails leaves the list as it was before
\* the request.
C22_FailedRequestKeepsList ==
    [][FailedRequest(lastOp') => LRUList(Now)' = LRUList(Now)]_vars

\* The sizes room is asked for: a small, a large and a too large target
SpillSizes == {64, 128, 2 * VramBytes}

\* C23: TextureSpillTargetsForSpace, from any memory the renderer gets into and with
\* any malloc budget, makes at most one eviction attempt per resident target and
\* one more; it returns true only when a free VRAM block of the size is there, and
\* false when the list is empty and the block is not there.
C23_SpillForSpaceBounded ==
    \A size \in SpillSizes, mleft \in MallocBudgets :
        \A r \in {TextureSpillTargetsForSpace(Mem(mleft, "low", 0), size)} :
            /\ Len(r.W.spilled) + (IF r.ret THEN 0 ELSE 1)
                   <= Cardinality(ResidentTargets) + 1
            /\ r.ret => vlargestblock(r.W) >= size
            /\ ~r.ret => vlargestblock(r.W) < size
            /\ (r.W.least_recent_target = NULL /\ vlargestblock(r.W) < size) => ~r.ret

\* C23 witness: the create of a target that VRAM cannot hold evicted every resident
\* target, two or more, and failed with the list empty
C23_Witness ==
    /\ lastOp.op = "create" /\ ~lastOp.ret
    /\ Len(lastOp.spilled) >= 2
    /\ lru.least_recent_target = NULL
    /\ ResidentTargets = {}

\* C32 (as claimed): whenever boundTarget is a texture, that texture's store is in
\* VRAM; no create and no bind of another texture has spilled the target that is
\* bound as the draw buffer.
C32_BoundTargetInVram ==
    (boundTarget # NULL /\ tex[boundTarget].live) =>
        /\ InVram(tex[boundTarget].data)
        /\ \A i \in DOMAIN lastOp.spilled : lastOp.spilled[i] # boundTarget

\* A live target in VRAM is linear, one in system memory is swizzled
TargetLayoutFollowsTier ==
    \A t \in T :
        (tex[t].live /\ IsTarget(t)) =>
            /\ InVram(tex[t].data) => ~tex[t].swizzled
            /\ tex[t].data = Sram => tex[t].swizzled

\* A pass leaves every target that was in VRAM, and that it did not evict, linear
\* in VRAM, whether or not it sampled from it
PassKeepsTargetsLinear ==
    lastOp'.op = "run" =>
        \A t \in T :
            (/\ IsTarget(t) /\ InVram(tex[t].data)
             /\ \A i \in DOMAIN lastOp'.spilled : lastOp'.spilled[i] # t) =>
                InVram(tex'[t].data) /\ ~tex'[t].swizzled

\* C37: in every state a live target whose store is in VRAM is linear, and a live
\* target whose store is in system memory, where only an eviction puts it, is
\* swizzled; activating a target in VRAM for sampling does not swizzle it.
C37_TargetLayoutFollowsTier == [](TargetLayoutFollowsTier) /\ [][PassKeepsTargetsLinear]_vars

\* C37 witness: after a pass a target tall enough to be swizzled for sampling is
\* linear in VRAM while an evicted target is swizzled in system memory
C37_Witness ==
    /\ lastOp.op = "run"
    /\ \E t \in T : /\ IsTarget(t) /\ InVram(tex[t].data)
                    /\ tex[t].h >= 16 /\ ~tex[t].swizzled
    /\ \E t \in T : IsTarget(t) /\ tex[t].data = Sram /\ tex[t].swizzled

\* The textures on the list, walked from most_recent_target along nexthotw
Listed == {LRUList(Now)[i] : i \in 1..Len(LRUList(Now))}

\* C40: the LRU list is a well-formed doubly linked list in every state: both ends
\* are NULL or neither is, the most recent target has no prevhotw and the least
\* recent no nexthotw, a's nexthotw is b exactly if b's prevhotw is a, the walk
\* along nexthotw from most_recent_target ends at least_recent_target, and a texture
\* that is not on the list has both links NULL.
C40_ListWellFormed ==
    /\ (lru.most_recent_target = NULL) <=> (lru.least_recent_target = NULL)
    /\ lru.most_recent_target # NULL => tex[lru.most_recent_target].prevhotw = NULL
    /\ lru.least_recent_target # NULL => tex[lru.least_recent_target].nexthotw = NULL
    /\ \A a, b \in T : (tex[a].nexthotw = b) <=> (tex[b].prevhotw = a)
    /\ Len(LRUList(Now)) <= NumTex
    /\ lru.most_recent_target # NULL =>
           LRUList(Now)[Len(LRUList(Now))] = lru.least_recent_target
    /\ \A t \in T \ Listed : tex[t].prevhotw = NULL /\ tex[t].nexthotw = NULL

\* C40 witness: a pass bound a target, which is now the most recent; the list holds
\* two targets or more and a spilled target is off the list
C40_Witness ==
    /\ lastOp.op = "run" /\ lastOp.bind[1] # NULL /\ lastOp.bind[2]
    /\ Len(LRUList(Now)) >= 2
    /\ lru.most_recent_target = lastOp.bind[1]
    /\ \E t \in T \ Listed : IsTarget(t) /\ tex[t].data = Sram

-----------------------------------------------------------------------------
(* Layout specification: one texture with known pixel words is swizzled,   *)
(* unswizzled, spilled to system memory and bound as render target again.  *)

\* The memory before any texture exists
EmptyMem ==
    [tex |-> [t \in T |-> NoTexture], most_recent_target |-> NULL,
     least_recent_target |-> NULL, mleft |-> NumTex + 1, policy |-> "low", g |-> 0,
     overrun |-> FALSE, spilled |-> << >>]

\* Shapes on both sides of the tiling: a tile is 16 bytes by 8 rows
CodecShapes ==
    {Shape(4, 8, "ABGR8888"), Shape(8, 8, "BGR565"), Shape(8, 8, "ABGR8888"),
     Shape(4, 16, "ABGR8888"), Shape(3, 5, "ABGR8888"), Shape(8, 16, "ABGR8888"),
     Shape(4, 4, "ABGR8888"), Shape(2, 8, "ABGR8888"), Shape(4, 8, "BGR565"),
     Shape(8, 4, "ABGR8888")}

\* What was written to the texture: every word different, or two words in turn
Patterns == {"index", "stripes"}
PatternWords(pattern, n) ==
    [i \in 1..n |-> IF pattern = "index" THEN i ELSE 1 + (i % 2)]

CodecEnv == [g |-> Garbage, mleft |-> {0, 1}]

CodecInit ==
    \E shape \in CodecShapes, access \in {"static", "target"}, pattern \in Patterns :
      \E r \in {PSP_CreateTexture(EmptyMem, 1, shape.w, shape.h, shape.format, access)} :
        /\ r.ret
        /\ orig = PatternWords(pattern, r.W.tex[1].size \div 4)
        /\ tex = [r.W.tex EXCEPT ![1].pixels = orig]
        /\ lru = [most_recent_target |-> r.W.most_recent_target,
                  least_recent_target |-> r.W.least_recent_target]
        /\ boundTarget = NULL
        /\ displayListAvail = FALSE
        /\ blendState = InitBlendState
        /\ gu = InitGu
        /\ useOrder = IF access = "target" THEN <<Used(1, "create")>> ELSE << >>
        /\ lastOp = NoOp
        /\ NoQueue

\* The result of a function on the memory becomes the state
Done(op, t, r, spilled) ==
    /\ tex' = r.W.tex
    /\ lru' = [most_recent_target |-> r.W.most_recent_target,
               least_recent_target |-> r.W.least_recent_target]
    /\ useOrder' = Resident(r.W, useOrder)
    /\ lastOp' = [NoOp EXCEPT !.op = op, !.ret = r.ret, !.spilled = r.W.spilled,
                              !.overrun = r.W.overrun, !.swizzled = tex[t].swizzled]
    /\ UNCHANGED <<boundTarget, displayListAvail, blendState, gu, orig, queueVars, vitaVars, gpu, winrt>>

\* TextureSwizzle(psp_texture, NULL), as TextureActivate and TextureSpillToSram call it
Swizzle(t, env) ==
    /\ tex[t].live /\ ~InVram(tex[t].data)
    /\ \E mleft \in env.mleft, g \in env.g :
         \E r \in {TextureSwizzle(Mem(mleft, "low", g), t, NoData)} : Done("swizzle", t, r, << >>)

\* TextureUnswizzle(psp_texture, NULL): the store goes back to linear layout
Unswizzle(t, env) ==
    /\ tex[t].live /\ ~InVram(tex[t].data)
    /\ \E mleft \in env.mleft, g \in env.g :
         \E r \in {TextureUnswizzle(Mem(mleft, "low", g), t, NoData)} : Done("unswizzle", t, r, << >>)

\* TextureSpillLRU: the eviction of the least recent target
SpillLRU(env) ==
    /\ lru.least_recent_target # NULL
    /\ \E mleft \in env.mleft, g \in env.g :
         \E r \in {TextureSpillLRU(Mem(mleft, "low", g), 0)} :
            Done("spill", lru.least_recent_target, r, r.W.spilled)

\* TextureBindAsTarget of a render target
BindAsTarget(t, env) ==
    /\ IsTarget(t)
    /\ \E mleft \in env.mleft, g \in env.g :
         \E r \in {TextureBindAsTarget(Mem(mleft, "low", g), t)} :
            /\ Done("bind", t, r, r.W.spilled)

CodecNext ==
    \/ Swizzle(1, CodecEnv)
    \/ Unswizzle(1, CodecEnv)
    \/ SpillLRU(CodecEnv)
    \/ BindAsTarget(1, CodecEnv)

SpecCodec == CodecInit /\ [][CodecNext]_vars

\* The padded texture is a whole number of tiles
Aligned(tx) == ByteWidth(tx) % 16 = 0 /\ tx.textureHeight % 8 = 0

\* C9: TextureUnswizzle of what TextureSwizzle made of a tile-aligned texture is the
\* original store, word for word: whenever such a texture is in linear layout its
\* words are the words that were written.
C9_RoundTrip ==
    (tex[1].live /\ Aligned(tex[1]) /\ ~tex[1].swizzled) => tex[1].pixels = orig

\* C9 witness: a texture of two tiles by two, every word different, was swizzled to
\* another order of words and TextureUnswizzle has just put it back
C9_Witness ==
    /\ lastOp.op = "unswizzle" /\ lastOp.ret /\ lastOp.swizzled
    /\ ByteWidth(tex[1]) = 32 /\ tex[1].textureHeight = 16
    /\ orig = PatternWords("index", 128)
    /\ ~tex[1].swizzled

\* C10 as stated: a render target of any accepted size that is in VRAM (again) holds
\* the pixel words that were written to it, in the same order.
C10_NoDataLoss ==
    (IsTarget(1) /\ InVram(tex[1].data)) => tex[1].pixels = orig

-----------------------------------------------------------------------------
(* Queue specification: a renderer of either driver, with two textures,    *)
(* queues draw commands and runs the queue on the window.                  *)

\* A queued SDL_RenderCommand; n is what the caller passed (points or vertices)
QCmd(command, texture, blend, count, n) ==
    [command |-> command, texture |-> texture, blend |-> blend, count |-> count,
     color |-> 1, scale |-> "NEAREST", addr |-> "CLAMP", n |-> n,
     rect |-> Rect(0, 0, 0, 0), enabled |-> FALSE]

\* The commands that carry no vertices, as the render core queues them
CmdSetViewport == QCmd("SETVIEWPORT", NULL, "NONE", 0, 0)
CmdSetClipRect == QCmd("SETCLIPRECT", NULL, "NONE", 0, 0)
CmdClear == QCmd("CLEAR", NULL, "NONE", 0, 0)
CmdSetDrawColor == QCmd("SETDRAWCOLOR", NULL, "NONE", 0, 0)

QueueTextures == {1, 2}
QueueBlendModes == {"NONE", "BLEND", "ADD", "BLEND_PREMULTIPLIED"}
PointCounts == {1}
LineCounts == {1, 2, 3}
VertexCounts == {3}
DrawableSize == <<8, 8>>
QueueEnv == [g |-> {0}, mleft |-> {NumTex + 1}, gpumem |-> {TRUE}]

\* The two textures of the PSP renderer, created one after the other
QueuePspTextures ==
    PSP_CreateTexture(PSP_CreateTexture(EmptyMem, 1, 4, 4, "BGR565", "static").W,
                      2, 4, 4, "BGR565", "static").W.tex

QueueInit ==
    /\ driver \in {"PSP", "VITA gxm"}
    /\ tex = IF driver = "PSP" THEN QueuePspTextures ELSE [t \in T |-> NoTexture]
    /\ lru = [most_recent_target |-> NULL, least_recent_target |-> NULL]
    /\ boundTarget = NULL
    /\ displayListAvail = FALSE
    /\ blendState = InitBlendState
    /\ gu = InitGu
    /\ useOrder = << >>
    /\ lastOp = NoOp
    /\ orig = << >>
    /\ queue = << >>
    /\ ran = << >>
    /\ vita \in {VitaRenderData(m) : m \in {"NONE", "BLEND"}}
    /\ driver = "PSP" => vita = VitaRenderData("NONE")
    /\ vitaTex = IF driver = "PSP" THEN << >> ELSE [t \in QueueTextures |-> VitaTexture]
    /\ gxm = << >>
    /\ pool = NoPool
    /\ gpu = NoGpu
    /\ winrt = NoWinRT

\* A command is added to the queue; the record of the last pass is dropped
Enqueue(cmd) ==
    /\ Len(queue) < MaxQueue
    /\ queue' = Append(queue, cmd)
    /\ ran' = << >>
    /\ gxm' = << >>
    /\ gu' = [gu EXCEPT !.calls = << >>]
    /\ lastOp' = NoOp
    /\ UNCHANGED <<tex, lru, boundTarget, displayListAvail, blendState, useOrder, orig,
                   driver, vita, vitaTex, pool, gpu, winrt>>

\* SDL_RenderPoints -> QueueDrawPoints of the driver
QueueDrawPoints(count, blend) ==
    Enqueue(QCmd("DRAW_POINTS", NULL, blend,
                 IF driver = "PSP" THEN PSP_QueueDrawPoints(count)
                 ELSE VITA_GXM_QueueDrawPoints(count), count))

\* SDL_RenderLines -> QueueDrawLines of the driver (PSP_QueueDrawPoints on the PSP)
QueueDrawLines(count, blend) ==
    Enqueue(QCmd("DRAW_LINES", NULL, blend,
                 IF driver = "PSP" THEN PSP_QueueDrawPoints(count)
                 ELSE VITA_GXM_QueueDrawLines(count), count))

\* SDL_RenderGeometry -> QueueGeometry of the driver
QueueGeometry(texture, count, blend) ==
    Enqueue(QCmd("GEOMETRY", texture, blend,
                 IF driver = "PSP" THEN PSP_QueueGeometry(count)
                 ELSE VITA_GXM_QueueGeometry(count), count))

\* SDL_RenderClear and SDL_SetRenderDrawColor queue commands without vertices
QueueClear == Enqueue(CmdClear)

QueueSetDrawColor == Enqueue(CmdSetDrawColor)

\* SDL_FlushRenderCommands -> VITA_GXM_RunCommandQueue on the window
VitaRunCommandQueue(cmds) ==
    /\ driver = "VITA gxm"
    /\ \E V \in {VITA_GXM_RunCommandQueue([d |-> vita, tex |-> vitaTex, calls |-> << >>],
                                          NULL, DrawableSize[1], DrawableSize[2], cmds)} :
          /\ vita' = V.d
          /\ vitaTex' = V.tex
          /\ gxm' = V.calls
    /\ queue' = << >>
    /\ ran' = cmds
    /\ lastOp' = [NoOp EXCEPT !.op = "run"]
    /\ UNCHANGED <<tex, lru, boundTarget, displayListAvail, blendState, gu, useOrder, orig,
                   driver, pool, gpu, winrt>>

QueueNext ==
    \/ \E n \in PointCounts : QueueDrawPoints(n, "BLEND")
    \/ \E n \in LineCounts : QueueDrawLines(n, "BLEND")
    \/ \E n \in VertexCounts, blend \in QueueBlendModes : QueueGeometry(NULL, n, blend)
    \/ \E n \in VertexCounts : QueueGeometry(1, n, "BLEND") \/ QueueGeometry(1, n, "ADD")
                               \/ QueueGeometry(2, n, "BLEND")
    \/ QueueClear
    \/ QueueSetDrawColor
    \/ \E cmds \in {queue} \ {<< >>} : RunCommandQueue(NULL, cmds, QueueEnv, TRUE)
    \/ \E cmds \in {queue} \ {<< >>} : VitaRunCommandQueue(cmds)

SpecQ == QueueInit /\ [][QueueNext]_vars

-----------------------------------------------------------------------------
(* Properties of the command queue translation.  They are about the state  *)
(* right after a pass: ran is the queue it was given, NativeCalls what it  *)
(* called.                                                                 *)

Ran == lastOp.op = "run" /\ ran # << >>
NativeCalls == IF driver = "PSP" THEN gu.calls ELSE gxm
DrawFns == {"sceGuDrawArray", "sceGxmDraw"}

\* The native draw calls made for the draw commands from..to, as indices of NativeCalls
DrawCalls(from, to) ==
    {i \in DOMAIN NativeCalls :
        /\ NativeCalls[i].fn \in DrawFns
        /\ NativeCalls[i].cmd \in from..to
        /\ IsDraw(ran[NativeCalls[i].cmd])}

\* The native calls of the functions fns made for command c
CallsFor(c, fns) ==
    {i \in DOMAIN NativeCalls : NativeCalls[i].fn \in fns /\ NativeCalls[i].cmd = c}

\* Two commands that may share a draw call; a maximal run is RunStart..RunEnd
SameBatch(a, b) ==
    /\ IsDraw(a) /\ IsDraw(b)
    /\ a.command = b.command /\ a.texture = b.texture /\ a.blend = b.blend
RunStarts ==
    {c \in DOMAIN ran : IsDraw(ran[c]) /\ (c = 1 \/ ~SameBatch(ran[c - 1], ran[c]))}
RunEnd(c) ==
    Min({j \in c..Len(ran) : j = Len(ran) \/ ~SameBatch(ran[j], ran[j + 1])})
RunCount(c) ==
    LET sum[j \in c..RunEnd(c)] == ran[j].count + (IF j = c THEN 0 ELSE sum[j - 1])
    IN sum[RunEnd(c)]

\* One native draw call for the commands from..to, of count vertices
OneDraw(from, to, count) ==
    /\ Cardinality(DrawCalls(from, to)) = 1
    /\ \A i \in DrawCalls(from, to) : NativeCalls[i].arg[2] = count

\* C4 (as the code has it): VITA_GXM_RunCommandQueue makes one native draw call per
\* maximal run of draw commands of the same type, texture and blend mode, its vertex
\* count the sum of the run's counts, and never merges commands that differ in one
\* of the three; PSP_RunCommandQueue makes one native draw call per draw command.
C4_VitaMergesPspDoesNot ==
    Ran =>
        IF driver = "PSP"
        THEN \A c \in DOMAIN ran : IsDraw(ran[c]) => OneDraw(c, c, ran[c].count)
        ELSE /\ \A c \in RunStarts : OneDraw(c, RunEnd(c), RunCount(c))
             /\ Cardinality(DrawCalls(1, Len(ran))) = Cardinality(RunStarts)

\* C4 witness: the Vita pass merged two geometry commands and kept apart a third
\* that differs in blend mode.
C4_Witness ==
    /\ Ran /\ driver = "VITA gxm" /\ Len(ran) = 3
    /\ SameBatch(ran[1], ran[2]) /\ ran[3].command = "GEOMETRY"
    /\ ran[3].texture = ran[2].texture /\ ran[3].blend # ran[2].blend
    /\ Cardinality(DrawCalls(1, 3)) = 2
    /\ OneDraw(1, 2, ran[1].count + ran[2].count)

\* C4 (as claimed): RunCommandQueue, of either driver, makes one native draw call
\* per maximal run of draw commands sharing type, texture and blend mode, with the
\* summed vertex count.
C4_EveryRunIsOneDraw ==
    Ran => \A c \in RunStarts : OneDraw(c, RunEnd(c), RunCount(c))

\* C5 (as claimed): a draw command without vertices (on the Vita, a DrawLines of one
\* point) causes no native draw call, yet the pass consumes it and goes on: a run
\* of draw commands without vertices gets no draw call, every other run gets its
\* draw call.
C5_NoDrawWithoutVertices ==
    Ran /\ driver = "VITA gxm" =>
        \A c \in RunStarts :
            IF RunCount(c) = 0 THEN DrawCalls(c, RunEnd(c)) = {}
            ELSE OneDraw(c, RunEnd(c), RunCount(c))

\* C6: VITA_GXM_QueueDrawLines records 2*(n-1) vertices for n points, and a pass over
\* a 2-point and a 3-point DrawLines of the same blend mode makes one native draw
\* call, of 6 LINES vertices.
C6_LinesArePairs ==
    driver = "VITA gxm" =>
        /\ \A i \in DOMAIN queue :
              queue[i].command = "DRAW_LINES" => queue[i].count = 2 * (queue[i].n - 1)
        /\ ( /\ Ran /\ Len(ran) = 2
             /\ ran[1].command = "DRAW_LINES" /\ ran[2].command = "DRAW_LINES"
             /\ ran[1].n = 2 /\ ran[2].n = 3 /\ ran[1].blend = ran[2].blend )
           => /\ Cardinality(DrawCalls(1, 2)) = 1
              /\ \A i \in DrawCalls(1, 2) : NativeCalls[i].arg = <<"LINES", 6>>

\* C6 witness: the pass over a 2-point and a 3-point DrawLines has been made.
C6_Witness ==
    /\ Ran /\ driver = "VITA gxm" /\ Len(ran) = 2
    /\ ran[1].command = "DRAW_LINES" /\ ran[2].command = "DRAW_LINES"
    /\ ran[1].n = 2 /\ ran[2].n = 3
    /\ \E i \in DrawCalls(1, 2) : NativeCalls[i].arg = <<"LINES", 6>>

\* The draw submissions of a pass: the first command of every native draw call the
\* driver makes (a clear is one on the Vita, with the clear programs)
Submissions ==
    {c \in DOMAIN ran :
        \/ ran[c].command = "CLEAR"
        \/ IsDraw(ran[c]) /\ (driver = "PSP" \/ c \in RunStarts)}
\* b is the submission after a, and both draw
Successive(a, b) ==
    /\ a \in Submissions /\ b \in Submissions /\ a < b
    /\ \A c \in Submissions : ~(a < c /\ c < b)
    /\ IsDraw(ran[a]) /\ IsDraw(ran[b])
ProgramFns == {"sceGxmSetVertexProgram", "sceGxmSetFragmentProgram"}
TextureFns == {"sceGxmSetFragmentTexture", "sceGuTexImage", "sceGuTexMode"}

\* C7: in a pass, a draw submission with the texture and blend mode (and so the
\* program pair) of the submission before it makes no native call that sets the
\* vertex program, the fragment program or the texture.
C7_SameStateNoRebind ==
    Ran =>
        \A a, b \in DOMAIN ran :
            ( /\ Successive(a, b)
              /\ ran[a].texture = ran[b].texture /\ ran[a].blend = ran[b].blend )
            => CallsFor(b, ProgramFns \cup TextureFns) = {}

\* C7 witness: a Vita pass drew twice with the same texture and blend mode, in two
\* submissions; the first one set the programs and the texture.
C7_Witness ==
    /\ Ran /\ driver = "VITA gxm"
    /\ \E a, b \in DOMAIN ran :
          /\ Successive(a, b)
          /\ ran[a].texture # NULL
          /\ ran[a].texture = ran[b].texture /\ ran[a].blend = ran[b].blend
          /\ Cardinality(CallsFor(a, ProgramFns \cup TextureFns)) = 3

\* b is the submission after a and differs from it in the blend mode only
OnlyBlendDiffers(a, b) ==
    /\ Successive(a, b)
    /\ ran[a].texture = ran[b].texture /\ ran[a].blend # ran[b].blend

-----------------------------------------------------------------------------
(* The vertex pool of the Vita GXM driver.  The queue handlers take the    *)
(* vertices of a command from the pool and VITA_GXM_RenderPresent resets   *)
(* it.  pool_malloc and the allocation of the two arenas are in            *)
(* SDL_render_vita_gxm_tools.c, which is not among the sources; they are   *)
(* taken from section 4.1 of the specification: a bump allocator over two  *)
(* arenas of fixed capacity that returns no pointer when the capacity is   *)
(* exceeded.  Sizes and addresses are in bytes.                            *)

PoolSize == 96
MaxFrames == 3
VITA_GXM_BUFFERS == 3
sizeof_color_vertex == 24
sizeof_texture_vertex == 32

\* The base address of arena i: two arenas that do not overlap, none at NULL
pool_addr(i) == (i + 1) * 2 * (PoolSize + 1)

\* [data, addr]: the pool after the allocation and the pointer it returns
pool_malloc(data, size) ==
    IF data.pool_index + size <= PoolSize
    THEN [data |-> [data EXCEPT !.pool_index = @ + size],
          addr |-> pool_addr(data.current_pool) + data.pool_index]
    ELSE [data |-> data, addr |-> NULL]

\* What a queue handler did with the pool: the pool after it, its return value,
\* the pointer pool_malloc gave it, the bytes it asked for and the number of
\* vertices it wrote through the pointer
Queued(m, size, ret, wrote) ==
    [data |-> m.data, ret |-> ret, vertex |-> m.addr, size |-> size, wrote |-> wrote]

\* VITA_GXM_QueueDrawPoints: the vertices are written without a look at the pointer
VITA_GXM_QueueDrawPointsVertices(data, count) ==
    Queued(pool_malloc(data, count * sizeof_color_vertex),
           count * sizeof_color_vertex, TRUE, count)

\* VITA_GXM_QueueDrawLines: two vertices per segment, written without a look at the pointer
VITA_GXM_QueueDrawLinesVertices(data, count) ==
    Queued(pool_malloc(data, (count - 1) * 2 * sizeof_color_vertex),
           (count - 1) * 2 * sizeof_color_vertex, TRUE, (count - 1) * 2)

\* VITA_GXM_QueueGeometry: returns false, before any write, when pool_malloc gave NULL
VITA_GXM_QueueGeometryVertices(data, texture, count) ==
    LET size == count * (IF texture # NULL THEN sizeof_texture_vertex
                         ELSE sizeof_color_vertex)
        Checked(m) == IF m.addr = NULL THEN Queued(m, size, FALSE, 0)
                      ELSE Queued(m, size, TRUE, count)
    IN Checked(pool_malloc(data, size))

\* VITA_GXM_RenderPresent without the change of arena
VITA_GXM_RenderPresentSameArena(data) ==
    [data EXCEPT !.frontBufferIndex = data.backBufferIndex,
                 !.backBufferIndex = (@ + 1) % VITA_GXM_BUFFERS,
                 !.pool_index = 0]

\* VITA_GXM_RenderPresent: the buffer indices, the pool index and the arena
VITA_GXM_RenderPresent(data) ==
    [data EXCEPT !.frontBufferIndex = data.backBufferIndex,
                 !.backBufferIndex = (@ + 1) % VITA_GXM_BUFFERS,
                 !.pool_index = 0,
                 !.current_pool = (@ + 1) % 2]

\* A write through a NULL pointer is undefined: the program is stopped, or the
\* write lands somewhere and the program goes on
Faults(r) == IF r.vertex = NULL /\ r.wrote > 0 THEN {"crash", "stray write"} ELSE {"none"}

\* A queue handler takes its vertices; the command itself is followed in SpecQ
QueueVertices(op, r) ==
    /\ driver = "VITA gxm"
    /\ pool.fault # "crash"
    /\ Len(pool.spans) < MaxQueue
    /\ \E fault \in Faults(r) :
          pool' = [r.data EXCEPT
                      !.spans = IF r.vertex = NULL THEN @
                                ELSE Append(@, [first |-> r.vertex, size |-> r.size]),
                      !.op = op, !.ok = r.ret, !.vertex = r.vertex,
                      !.wrote = r.wrote, !.fault = fault]
    /\ UNCHANGED <<pspVars, queueVars, vita, vitaTex, gxm, gpu, winrt>>

QueueDrawPointsVertices(count) ==
    QueueVertices("QueueDrawPoints", VITA_GXM_QueueDrawPointsVertices(pool, count))

QueueDrawLinesVertices(count) ==
    QueueVertices("QueueDrawLines", VITA_GXM_QueueDrawLinesVertices(pool, count))

QueueGeometryVertices(texture, count) ==
    QueueVertices("QueueGeometry", VITA_GXM_QueueGeometryVertices(pool, texture, count))

\* A present that resets the pool and leaves the buffer indices alone
VitaRenderPresentKeepsBuffers ==
    /\ driver = "VITA gxm"
    /\ pool.fault # "crash"
    /\ pool.presents < MaxFrames
    /\ pool' = [pool EXCEPT
                   !.pool_index = 0, !.current_pool = (@ + 1) % 2,
                   !.before = pool.spans, !.spans = << >>, !.presents = @ + 1,
                   !.op = "RenderPresent", !.ok = TRUE, !.vertex = NULL, !.wrote = 0]
    /\ UNCHANGED <<pspVars, queueVars, vita, vitaTex, gxm, gpu, winrt>>

\* SDL_RenderPresent -> VITA_GXM_RenderPresent; the frame's allocations become
\* those of the frame before
VitaRenderPresent ==
    /\ driver = "VITA gxm"
    /\ pool.fault # "crash"
    /\ pool.presents < MaxFrames
    /\ pool' = [VITA_GXM_RenderPresent(pool) EXCEPT
                   !.before = pool.spans, !.spans = << >>, !.presents = @ + 1,
                   !.op = "RenderPresent", !.ok = TRUE, !.vertex = NULL, !.wrote = 0]
    /\ UNCHANGED <<pspVars, queueVars, vita, vitaTex, gxm, gpu, winrt>>

PoolInit ==
    /\ tex = [t \in T |-> NoTexture]
    /\ lru = [most_recent_target |-> NULL, least_recent_target |-> NULL]
    /\ boundTarget = NULL
    /\ displayListAvail = FALSE
    /\ blendState = InitBlendState
    /\ gu = InitGu
    /\ useOrder = << >>
    /\ lastOp = NoOp
    /\ orig = << >>
    /\ driver = "VITA gxm"
    /\ queue = << >>
    /\ ran = << >>
    /\ vita = VitaRenderData("NONE")
    /\ vitaTex = << >>
    /\ gxm = << >>
    /\ pool = NoPool
    /\ gpu = NoGpu
    /\ winrt = NoWinRT

PoolNext ==
    \/ \E n \in PointCounts \cup {2} : QueueDrawPointsVertices(n)
    \/ \E n \in LineCounts : QueueDrawLinesVertices(n)
    \/ \E t \in {NULL, 1}, n \in VertexCounts : QueueGeometryVertices(t, n)
    \/ VitaRenderPresent

SpecPool == PoolInit /\ [][PoolNext]_vars

\* The span lies in arena a
InArena(span, a) ==
    /\ pool_addr(a) <= span.first
    /\ span.first + span.size <= pool_addr(a) + PoolSize

\* C11: every VITA_GXM_RenderPresent puts pool_index back to 0 and changes the
\* arena, once: the arena in use is 0, 1, 0, 1, ... with the number of presents,
\* the vertices of a frame all come from the arena in use and those of the frame
\* before all from the other one.
C11_ArenasAlternate ==
    /\ pool.current_pool = pool.presents % 2
    /\ pool.op = "RenderPresent" => pool.pool_index = 0
    /\ \A i \in DOMAIN pool.spans : InArena(pool.spans[i], pool.current_pool)
    /\ \A i \in DOMAIN pool.before : InArena(pool.before[i], 1 - pool.current_pool)

\* C11 witness: in the third frame, which has vertices as the second had; both
\* presents before it found a used pool.
C11_Witness ==
    /\ pool.presents = 2 /\ pool.current_pool = 0
    /\ pool.spans # << >> /\ pool.before # << >>
    /\ pool.pool_index > 0

\* C14 (as claimed): a Vita queue operation that finds the pool exhausted returns
\* failure and has written no vertex through the pointer it got.
C14_ExhaustedPoolFails ==
    (pool.op \in {"QueueDrawPoints", "QueueDrawLines", "QueueGeometry"}
        /\ pool.vertex = NULL)
    => (~pool.ok /\ pool.wrote = 0)

\* After a present the front buffer is the one before the back buffer in the cycle
\* of VITA_GXM_BUFFERS, and the back buffer is the number of presents in that cycle
BuffersCycle ==
    pool.presents > 0 =>
        /\ pool.backBufferIndex = (pool.frontBufferIndex + 1) % VITA_GXM_BUFFERS
        /\ pool.backBufferIndex # pool.frontBufferIndex
        /\ pool.backBufferIndex = pool.presents % VITA_GXM_BUFFERS

\* A present makes the buffer it queued for display, the back buffer, the front one
PresentQueuesBack ==
    pool'.presents = pool.presents + 1 =>
        pool'.frontBufferIndex = pool.backBufferIndex

\* C30: every VITA_GXM_RenderPresent leaves frontBufferIndex at the index it queued
\* for display (the back buffer it found) and backBufferIndex at
\* (frontBufferIndex + 1) mod VITA_GXM_BUFFERS; from the first present on the
\* buffer StartDrawing renders into is not the front buffer, and the back index
\* goes 0, 1, 2, 0, ... with the presents.
C30_BackBufferFollowsFront == [](BuffersCycle) /\ [][PresentQueuesBack]_vars

\* C30 witness: the frame after the third present is being filled; the back index
\* is 0 again
C30_Witness ==
    /\ pool.presents = 3 /\ pool.spans # << >>
    /\ pool.backBufferIndex = 0 /\ pool.frontBufferIndex = 2

-----------------------------------------------------------------------------
(* Render state specification: a renderer of either driver queues viewport, *)
(* clip rectangle and draw colour commands between draws and clears, and    *)
(* runs the queue on the window.                                            *)

Viewports == {Rect(0, 0, 8, 8), Rect(0, 0, 4, 4), Rect(2, 2, 4, 4)}
ClipRects == {Rect(1, 1, 2, 2), Rect(0, 0, 6, 6)}

\* SDL_SetRenderViewport queues the viewport of the view
QueueSetViewport(rect) ==
    Enqueue([CmdSetViewport EXCEPT !.rect = rect])

\* SDL_SetRenderClipRect queues the clip rectangle of the view and whether it is on
QueueSetClipRect(rect, enabled) ==
    Enqueue([CmdSetClipRect EXCEPT !.rect = rect,
                                                          !.enabled = enabled])

StateNext ==
    \/ \E rect \in Viewports : QueueSetViewport(rect)
    \/ \E rect \in ClipRects : QueueSetClipRect(rect, TRUE)
    \/ QueueSetClipRect(Rect(0, 0, 0, 0), FALSE)
    \/ QueueSetDrawColor
    \/ QueueClear
    \/ \E n \in PointCounts : QueueDrawPoints(n, "BLEND")
    \/ \E cmds \in {queue} \ {<< >>} : RunCommandQueue(NULL, cmds, QueueEnv, TRUE)
    \/ \E cmds \in {queue} \ {<< >>} : VitaRunCommandQueue(cmds)

SpecState == QueueInit /\ [][StateNext]_vars

\* The commands that only change render state
StateOnly == {"SETVIEWPORT", "SETCLIPRECT", "SETDRAWCOLOR"}
\* The native calls made for command c
AllCallsFor(c) == {i \in DOMAIN NativeCalls : NativeCalls[i].cmd = c}
\* The last command of the given kind before c, 0 if there is none
LastBefore(command, c) ==
    Max({0} \cup {u \in DOMAIN ran : u < c /\ ran[u].command = command})
\* The viewport (clip rectangle) command v sets another rectangle than the command
\* of its kind before it in the pass did
Changes(v) ==
    LET u == LastBefore(ran[v].command, v)
    IN u # 0 /\ ran[u].rect # ran[v].rect
\* The draw submission (of points, lines or geometry) that follows command v, 0 if
\* the pass has none
NextDraw(v) ==
    IF \E b \in RunStarts : b > v THEN Min({b \in RunStarts : b > v}) ELSE 0
\* Exactly one call of fn is issued for command b
OneCall(b, fn) == Cardinality(CallsFor(b, {fn})) = 1

\* C19, Vita GXM: state commands make no native call; the viewport of a changing
\* SetViewport is set natively once, by the draw submission that follows, and is
\* still owed when the pass has none; a changed clip rectangle likewise.
C19_VitaDefers ==
    /\ \A c \in DOMAIN ran : ran[c].command \in StateOnly => AllCallsFor(c) = {}
    /\ \A c \in DOMAIN ran :
          IF c \in RunStarts
          THEN /\ Cardinality(CallsFor(c, {"sceGxmSetViewport"})) <= 1
               /\ Cardinality(CallsFor(c, {"set_clip_rectangle"})) <= 1
               /\ Cardinality(CallsFor(c, {"unset_clip_rectangle"})) <= 1
          ELSE CallsFor(c, {"sceGxmSetViewport", "set_clip_rectangle"}) = {}
    /\ \A v \in DOMAIN ran :
          (ran[v].command = "SETVIEWPORT" /\ Changes(v)) =>
              IF NextDraw(v) = 0 THEN vita.drawstate.viewport_dirty
              ELSE /\ OneCall(NextDraw(v), "sceGxmSetViewport")
                   /\ \A i \in CallsFor(NextDraw(v), {"sceGxmSetViewport"}) :
                         NativeCalls[i].arg =
                             ran[LastBefore("SETVIEWPORT", NextDraw(v))].rect
    /\ \A b \in RunStarts :
          (NextDraw(b) # 0 /\ LastBefore("SETVIEWPORT", NextDraw(b)) < b) =>
              CallsFor(NextDraw(b), {"sceGxmSetViewport"}) = {}
    /\ \A v \in DOMAIN ran :
          ( /\ ran[v].command = "SETCLIPRECT" /\ ran[v].enabled /\ Changes(v)
            /\ ran[LastBefore("SETCLIPRECT", v)].enabled
            /\ NextDraw(v) # 0 /\ LastBefore("SETCLIPRECT", NextDraw(v)) = v )
          => OneCall(NextDraw(v), "set_clip_rectangle")

\* C19, PSP: SetDrawColor makes no native call; SetViewport and SetClipRect make
\* theirs when they are walked, and no draw or clear makes one for them.
C19_PspImmediate ==
    \A c \in DOMAIN ran :
        CASE ran[c].command = "SETDRAWCOLOR" -> AllCallsFor(c) = {}
          [] ran[c].command = "SETVIEWPORT" ->
                /\ Cardinality(AllCallsFor(c)) = 3
                /\ OneCall(c, "sceGuOffset") /\ OneCall(c, "sceGuViewport")
                /\ OneCall(c, "sceGuScissor")
                /\ \A i \in AllCallsFor(c) : NativeCalls[i].arg = ran[c].rect
          [] ran[c].command = "SETCLIPRECT" ->
                IF ran[c].enabled
                THEN /\ Cardinality(AllCallsFor(c)) = 2
                     /\ OneCall(c, "sceGuEnable") /\ OneCall(c, "sceGuScissor")
                ELSE /\ Cardinality(AllCallsFor(c)) = 1 /\ OneCall(c, "sceGuDisable")
          [] OTHER -> CallsFor(c, {"sceGuOffset", "sceGuViewport", "sceGuScissor"}) = {}

LastDraw == Max({0} \cup {c \in DOMAIN ran : IsDraw(ran[c])})
AfterLastDraw(kinds) == \E c \in DOMAIN ran : c > LastDraw /\ ran[c].command \in kinds

\* C24, at the end of a Vita pass that drew: a flag is still set only when a command
\* after the last draw set it, or, for cliprect_dirty, when neither a clip rectangle
\* nor a viewport is in force; what a SetViewport after the last draw changed is owed.
C24_DrawClearsFlags ==
    (Ran /\ driver = "VITA gxm") =>
        /\ LastDraw # 0 =>
              /\ vita.drawstate.viewport_dirty => AfterLastDraw({"SETVIEWPORT"})
              /\ vita.drawstate.cliprect_enabled_dirty =>
                    AfterLastDraw({"SETVIEWPORT", "SETCLIPRECT"})
              /\ vita.drawstate.cliprect_dirty =>
                    \/ AfterLastDraw({"SETVIEWPORT", "SETCLIPRECT", "CLEAR"})
                    \/ ~vita.drawstate.cliprect_enabled /\ ~vita.drawstate.viewport_is_set
        /\ \A v \in DOMAIN ran :
              (ran[v].command = "SETVIEWPORT" /\ Changes(v) /\ v > LastDraw) =>
                  vita.drawstate.viewport_dirty /\ vita.drawstate.cliprect_dirty

\* C24, a Vita pass that draws nothing: no flag that was set is cleared
C24_OnlyDrawClearsFlags ==
    (driver = "VITA gxm" /\ lastOp'.op = "run" /\ \A c \in DOMAIN ran' : ~IsDraw(ran'[c])) =>
        /\ vita.drawstate.viewport_dirty => vita'.drawstate.viewport_dirty
        /\ vita.drawstate.cliprect_dirty => vita'.drawstate.cliprect_dirty
        /\ vita.drawstate.cliprect_enabled_dirty => vita'.drawstate.cliprect_enabled_dirty

\* C24 (as the code has it): the dirty flags are cleared by the apply steps of
\* SetDrawState, that is by a draw submission, and nowhere else; a flag set after
\* the last draw of a pass is still set when the pass ends.
C24_FlagsClearedByDrawOnly == [](C24_DrawClearsFlags) /\ [][C24_OnlyDrawClearsFlags]_vars

\* C24 witness: a Vita pass set a viewport, drew, and then turned clipping on: the
\* draw has cleared viewport_dirty, and the clip rectangle is owed at the end
C24_Witness ==
    /\ Ran /\ driver = "VITA gxm" /\ Len(ran) = 3
    /\ ran[1].command = "SETVIEWPORT" /\ IsDraw(ran[2])
    /\ ran[3].command = "SETCLIPRECT" /\ ran[3].enabled
    /\ CallsFor(2, {"sceGxmSetViewport"}) # {}
    /\ ~vita.drawstate.viewport_dirty /\ vita.drawstate.cliprect_dirty

\* C24 (as claimed): no dirty flag is set when a pass has ended.
C24_NoFlagAtPassEnd ==
    (Ran /\ driver = "VITA gxm") =>
        /\ ~vita.drawstate.viewport_dirty
        /\ ~vita.drawstate.cliprect_dirty
        /\ ~vita.drawstate.cliprect_enabled_dirty

\* The calls that change the native clip region, and those of them made before call i
ClipFns == {"set_clip_rectangle", "unset_clip_rectangle"}
ClipCallsBefore(i) == {j \in DOMAIN gxm : j < i /\ gxm[j].fn \in ClipFns}
\* The viewport is the whole drawable
FullViewport(rect) == rect = Rect(0, 0, DrawableSize[1], DrawableSize[2])

\* C25 (as claimed): when a Vita pass submits a draw after a SetViewport and with
\* clipping turned off by the last SetClipRect before it, the native clip region the
\* pass has set for the draw is the viewport's width and height at (0, 0), or no
\* clip region at all when the viewport is the whole drawable.
C25_DisabledClipIsViewportExtent ==
    (Ran /\ driver = "VITA gxm") =>
        \A b \in RunStarts :
            ( /\ LastBefore("SETVIEWPORT", b) # 0
              /\ LastBefore("SETCLIPRECT", b) # 0
              /\ ~ran[LastBefore("SETCLIPRECT", b)].enabled ) =>
                \A i \in CallsFor(b, {"sceGxmDraw"}) :
                    ClipCallsBefore(i) # {} =>
                        IF FullViewport(ran[LastBefore("SETVIEWPORT", b)].rect)
                        THEN gxm[Max(ClipCallsBefore(i))].fn = "unset_clip_rectangle"
                        ELSE /\ gxm[Max(ClipCallsBefore(i))].fn = "set_clip_rectangle"
                             /\ gxm[Max(ClipCallsBefore(i))].arg =
                                    <<0, 0, ran[LastBefore("SETVIEWPORT", b)].rect.w,
                                      ran[LastBefore("SETVIEWPORT", b)].rect.h>>

\* C26: in a Vita pass every Clear command makes its own native calls, after those of
\* the commands before it and before those of the commands after it, and among them
\* are exactly one binding of the clear vertex program, exactly one of the clear
\* fragment program and, after both, exactly one draw of 3 indices of triangles,
\* whatever programs the cache held when the command was walked.
C26_ClearAppliedAtOnce ==
    (Ran /\ driver = "VITA gxm") =>
        \A c \in DOMAIN ran :
            ran[c].command = "CLEAR" =>
                /\ \E v, f, d \in AllCallsFor(c) :
                       /\ v < d /\ f < d
                       /\ gxm[v] = Call("sceGxmSetVertexProgram", clearVertexProgram, c)
                       /\ gxm[f] = Call("sceGxmSetFragmentProgram", clearFragmentProgram, c)
                       /\ gxm[d] = Call("sceGxmDraw", <<"TRIANGLES", 3>>, c)
                /\ Cardinality(CallsFor(c, {"sceGxmSetVertexProgram"})) = 1
                /\ Cardinality(CallsFor(c, {"sceGxmSetFragmentProgram"})) = 1
                /\ Cardinality(CallsFor(c, {"sceGxmDraw"})) = 1
                /\ \A i \in DOMAIN gxm : \A j \in AllCallsFor(c) :
                       /\ gxm[i].cmd \in 1..(c - 1) => i < j
                       /\ gxm[i].cmd > c => i > j

\* C26 witness: a pass with a Clear right after a Clear, walked while the cache
\* already holds the clear programs, and a draw after both
C26_Witness ==
    /\ Ran /\ driver = "VITA gxm" /\ Len(ran) = 3
    /\ ran[1].command = "CLEAR" /\ ran[2].command = "CLEAR" /\ IsDraw(ran[3])
    /\ CallsFor(2, {"sceGxmSetVertexProgram"}) # {}
    /\ CallsFor(3, {"sceGxmDraw"}) # {}

\* The polygon mode in force after call i of a Vita pass that was entered in
\* TRIANGLE_FILL mode
PolygonModeAfter(i) ==
    LET set == {j \in 1..i : gxm[j].fn = "sceGxmSetFrontPolygonMode"}
    IN IF set = {} THEN "TRIANGLE_FILL" ELSE gxm[Max(set)].arg
\* The polygon mode a primitive type is drawn in
ModeOf(op) ==
    CASE op = "POINTS" -> "POINT" [] op = "LINES" -> "LINE" [] OTHER -> "TRIANGLE_FILL"

\* C27: a Vita pass entered in TRIANGLE_FILL mode is in that mode after the last
\* call of every command and when it returns; the mode is POINT or LINE only from
\* the call that sets it, which the draw call of the same batch follows at once,
\* to the call right after that draw, which sets TRIANGLE_FILL again; and every
\* draw call is made in the mode of its primitive type.
C27_PolygonModeRestored ==
    (Ran /\ driver = "VITA gxm") =>
        \A i \in DOMAIN gxm :
            /\ (i = Len(gxm) \/ gxm[i + 1].cmd # gxm[i].cmd) =>
                   PolygonModeAfter(i) = "TRIANGLE_FILL"
            /\ PolygonModeAfter(i) # "TRIANGLE_FILL" =>
                   /\ i < Len(gxm)
                   /\ \/ /\ gxm[i].fn = "sceGxmSetFrontPolygonMode"
                         /\ gxm[i + 1].fn = "sceGxmDraw"
                         /\ gxm[i + 1].cmd = gxm[i].cmd
                      \/ /\ gxm[i].fn = "sceGxmDraw"
                         /\ gxm[i + 1] =
                                Call("sceGxmSetFrontPolygonMode", "TRIANGLE_FILL", gxm[i].cmd)
            /\ gxm[i].fn = "sceGxmDraw" => PolygonModeAfter(i) = ModeOf(gxm[i].arg[1])

\* C27 witness: a pass that drew lines and then geometry
C27_Witness ==
    /\ Ran /\ driver = "VITA gxm" /\ Len(ran) = 2
    /\ ran[1].command = "DRAW_LINES" /\ ran[2].command = "GEOMETRY"
    /\ \E i \in CallsFor(1, {"sceGxmSetFrontPolygonMode"}) : gxm[i].arg = "LINE"
    /\ \E i \in CallsFor(2, {"sceGxmDraw"}) : gxm[i].arg[1] = "TRIANGLES"

\* C34 (as claimed): after a PSP pass, whatever command it ended with, the cache
\* agrees with the GU: GU_TEXTURE_2D is enabled exactly when blendState.texture is
\* a texture, and the blend function in force is that of blendState.mode.
C34_BlendCacheCoherent ==
    (Ran /\ driver = "PSP") =>
        /\ gu.texture2d <=> (blendState.texture # NULL)
        /\ blendState.mode # "INVALID" => gu.blendfn = blendState.mode

\* The argument of the last call of fn in the pass, none if there was no such call
LastArg(fn, none) ==
    IF \E i \in DOMAIN gxm : gxm[i].fn = fn
    THEN gxm[Max({i \in DOMAIN gxm : gxm[i].fn = fn})].arg
    ELSE none

\* C35: after a Vita pass, whatever command it ended with, the cached vertex and
\* fragment programs are the ones last given to sceGxmSetVertexProgram and
\* sceGxmSetFragmentProgram in the scene (none if the scene had no such call), also
\* when the last to set them was a Clear, and a cached texture is the one last
\* given to sceGxmSetFragmentTexture.
C35_CacheIsNativeState ==
    (Ran /\ driver = "VITA gxm") =>
        /\ vita.drawstate.vertex_program = LastArg("sceGxmSetVertexProgram", NoProgram)
        /\ vita.drawstate.fragment_program = LastArg("sceGxmSetFragmentProgram", NoProgram)
        /\ vita.drawstate.texture # NULL =>
               vita.drawstate.texture = LastArg("sceGxmSetFragmentTexture", NULL)

\* C35 witness: a pass drew with a texture, cleared, and drew without a texture
C35_Witness ==
    /\ Ran /\ driver = "VITA gxm" /\ Len(ran) = 3
    /\ ran[1].command = "GEOMETRY" /\ ran[1].texture # NULL
    /\ ran[2].command = "CLEAR"
    /\ ran[3].command = "GEOMETRY" /\ ran[3].texture = NULL
    /\ vita.drawstate.vertex_program = colorVertexProgram
    /\ CallsFor(2, {"sceGxmSetVertexProgram"}) # {}

-----------------------------------------------------------------------------
(* Clip specification: a Vita GXM renderer whose last pass set a viewport   *)
(* and an enabled clip rectangle draws points, so that SetDrawState clamps  *)
(* the clip rectangle to the viewport and sets the native region clip.      *)

ClampViewports ==
    {Rect(x, y, w, h) : x \in {0, 2}, y \in {0, 1}, w \in {4, 8}, h \in {4, 8}}
ClampClips ==
    {Rect(x, y, w, h) : x \in {-2, 0, 3}, y \in {-1, 0, 5}, w \in {2, 6, 12}, h \in {2, 12}}

\* The renderer after a first pass over a SetViewport and a SetClipRect command
ClampInit ==
    /\ tex = [t \in T |-> NoTexture]
    /\ lru = [most_recent_target |-> NULL, least_recent_target |-> NULL]
    /\ boundTarget = NULL
    /\ displayListAvail = FALSE
    /\ blendState = InitBlendState
    /\ gu = InitGu
    /\ useOrder = << >>
    /\ lastOp = NoOp
    /\ orig = << >>
    /\ driver = "VITA gxm"
    /\ queue = << >>
    /\ ran = << >>
    /\ \E viewport \in ClampViewports, clip \in ClampClips :
          vita = VITA_GXM_RunCommandQueue(
                     [d |-> VitaRenderData("NONE"), tex |-> << >>, calls |-> << >>],
                     NULL, DrawableSize[1], DrawableSize[2],
                     <<[CmdSetViewport EXCEPT !.rect = viewport],
                       [CmdSetClipRect EXCEPT !.rect = clip,
                                                                      !.enabled = TRUE]>>).d
    /\ vitaTex = << >>
    /\ gxm = << >>
    /\ pool = NoPool
    /\ gpu = NoGpu
    /\ winrt = NoWinRT

ClampNext ==
    \/ \E n \in PointCounts : QueueDrawPoints(n, "BLEND")
    \/ \E cmds \in {queue} \ {<< >>} : VitaRunCommandQueue(cmds)

SpecClamp == ClampInit /\ [][ClampNext]_vars

\* C20 (as claimed): the rectangle of the native scissor call is the clip rectangle
\* clamped to the viewport: it is not larger than the clip rectangle, it does not
\* start left of or above 0, and it does not reach beyond the right or the bottom
\* edge of the viewport.
C20_ClampedToViewport ==
    (Ran /\ vita.drawstate.viewport_is_set) =>
        \A i \in DOMAIN gxm :
            gxm[i].fn = "set_clip_rectangle" =>
                /\ gxm[i].arg[3] - gxm[i].arg[1] <= vita.drawstate.cliprect.w
                /\ gxm[i].arg[4] - gxm[i].arg[2] <= vita.drawstate.cliprect.h
                /\ gxm[i].arg[1] >= 0 /\ gxm[i].arg[2] >= 0
                /\ gxm[i].arg[3] <= vita.drawstate.viewport.x + vita.drawstate.viewport.w
                /\ gxm[i].arg[4] <= vita.drawstate.viewport.y + vita.drawstate.viewport.h

-----------------------------------------------------------------------------
(* Texture access.  The GPU works through what a command queue run         *)
(* submitted while the CPU goes on: the memory of the render target and of *)
(* the sampled textures is in use until the CPU has waited for the GPU     *)
(* (sceGuSync on the PSP, sceGxmFinish on the Vita).                       *)

\* PSP_LockTexture: the byte offset of the pointer into the store, and the pitch
PSP_LockTexture(tx, rect) ==
    [pixels |-> rect.y * tx.pitch + rect.x * SDL_BYTESPERPIXEL(tx.sdlformat),
     pitch |-> tx.pitch]

\* PSP_UpdateTexture: rect.h rows of src (pitch bytes apart) are copied to the rows
\* of the store that start at the pointer of PSP_LockTexture
PSP_UpdateTexture(W, t, rect, src, pitch) ==
    LET tx == W.tex[t]
        dst == PSP_LockTexture(tx, rect)
        length == rect.w * SDL_BYTESPERPIXEL(tx.sdlformat)
        Row(i) == ((i - 1) * 4 - dst.pixels) \div dst.pitch
        Col(i) == ((i - 1) * 4 - dst.pixels) % dst.pitch
        Written(i) == (i - 1) * 4 >= dst.pixels /\ Row(i) < rect.h /\ Col(i) < length
    IN [W EXCEPT !.tex[t].pixels =
            [i \in DOMAIN @ |-> IF Written(i) THEN src[(Row(i) * pitch + Col(i)) \div 4 + 1]
                                ELSE @[i]]]

PixelFormatToVITAFMT(format) ==
    CASE format = "ARGB8888" -> "U8U8U8U8_ARGB"
      [] format = "XRGB8888" -> "U8U8U8U8_ARGB"
      [] format = "XBGR8888" -> "U8U8U8U8_ABGR"
      [] format = "ABGR8888" -> "U8U8U8U8_ABGR"
      [] format = "RGB565"   -> "U5U6U5_RGB"
      [] format = "BGR565"   -> "U5U6U5_BGR"
      [] OTHER               -> "U8U8U8U8_ABGR"

\* The texture formats the renderer of the driver announces
SupportedTextureFormats(d) ==
    IF d = "PSP" THEN {"BGR565", "ABGR1555", "ABGR4444", "ABGR8888"}
    ELSE {"ABGR8888", "ARGB8888", "RGB565", "BGR565"}

\* A NULL gxm_texture
NoGxmTexture == [valid |-> FALSE, format |-> "NONE", gxm_rendertarget |-> FALSE]

\* create_gxm_texture: the native backing of the texture, a render target object
\* with it for a target; NULL when the GPU memory is not there
create_gxm_texture(w, h, format, isRenderTarget, gpumem) ==
    IF ~gpumem THEN NoGxmTexture
    ELSE [valid |-> TRUE, format |-> format, gxm_rendertarget |-> isRenderTarget]

\* texture->internal of a Vita texture that does not exist
NoVitaTexture == VitaTexture @@ [live |-> FALSE, tex |-> NoGxmTexture]

VITA_GXM_CreateTexture(w, h, sdlformat, access, mleft, gpumem) ==
    LET Created(gxm_texture) ==
            IF ~gxm_texture.valid THEN [ret |-> FALSE, internal |-> NoVitaTexture]
            ELSE [ret |-> TRUE,
                  internal |-> VitaTexture @@ [live |-> TRUE, tex |-> gxm_texture]]
    IN IF mleft = 0 THEN [ret |-> FALSE, internal |-> NoVitaTexture]
       ELSE Created(create_gxm_texture(w, h, PixelFormatToVITAFMT(sdlformat),
                                       access = "target", gpumem))

\* VITA_GXM_LockTexture: whether it calls sceGxmFinish before it returns
VITA_GXM_LockTexture(vita_texture) == vita_texture.tex.gxm_rendertarget

\* VITA_GXM_DestroyTexture: whether it calls sceGxmFinish and frees the texture
VITA_GXM_DestroyTexture(vita_texture) == vita_texture.live /\ vita_texture.tex.valid

\* The last texture operation
TexOp(op, t, ret, sdlformat, target, pending, swizzled) ==
    [op |-> op, t |-> t, ret |-> ret, sdlformat |-> sdlformat, target |-> target,
     pending |-> pending, swizzled |-> swizzled]

\* The textures the draws of a pass sample from
Sampled(cmds) == {cmds[i].texture : i \in DOMAIN cmds} \ {NULL}

\* The textures of the program: two SDL_Texture slots; a static texture that is
\* large enough to be swizzled, a small render target, and a small static texture
\* in a format that neither renderer announces
TexSlots == {1, 2}
TexKinds ==
    {[shape |-> Shape(16, 8, "BGR565"), access |-> "static"],
     [shape |-> Shape(4, 4, "ABGR8888"), access |-> "target"],
     [shape |-> Shape(4, 4, "RGB24"), access |-> "static"]}
TexQueues(targets) ==
    {<<QCmd("DRAW_POINTS", NULL, "BLEND", 1, 1)>>} \cup
    {<<QCmd("GEOMETRY", t, "BLEND", 3, 3)>> : t \in TexSlots \ targets}

\* SDL_CreateTexture -> CreateTexture of the driver, on a free SDL_Texture
TexCreate(t, shape, access) ==
    /\ \E mleft \in {0, NumTex + 1}, gpumem \in BOOLEAN :
         IF driver = "PSP"
         THEN /\ ~tex[t].live
              /\ \E r \in {PSP_CreateTexture(Mem(mleft, "low", 0), t, shape.w, shape.h,
                                             shape.format, access)} :
                    /\ tex' = r.W.tex
                    /\ lru' = [most_recent_target |-> r.W.most_recent_target,
                               least_recent_target |-> r.W.least_recent_target]
                    /\ gpu' = [inflight |-> gpu.inflight] @@
                              TexOp("create", t, r.ret, shape.format, access = "target",
                                    FALSE, FALSE)
              /\ UNCHANGED vitaTex
         ELSE /\ ~vitaTex[t].live
              /\ \E r \in {VITA_GXM_CreateTexture(shape.w, shape.h, shape.format, access,
                                                  mleft, gpumem)} :
                    /\ vitaTex' = [vitaTex EXCEPT ![t] = r.internal]
                    /\ gpu' = [inflight |-> gpu.inflight] @@
                              TexOp("create", t, r.ret, shape.format, access = "target",
                                    FALSE, FALSE)
              /\ UNCHANGED <<tex, lru>>
    /\ UNCHANGED <<boundTarget, displayListAvail, blendState, gu, useOrder, lastOp, orig,
                   queueVars, vita, gxm, pool, winrt>>

\* SDL_UpdateTexture -> UpdateTexture of the driver, with new pixels for the whole
\* texture
TexUpdate(t) ==
    /\ IF driver = "PSP"
       THEN /\ tex[t].live
            /\ \E length \in {tex[t].w * SDL_BYTESPERPIXEL(tex[t].sdlformat)} :
                 tex' = PSP_UpdateTexture(Mem(0, "low", 0), t,
                                          Rect(0, 0, tex[t].w, tex[t].h),
                                          PatternWords("index", (length * tex[t].h) \div 4),
                                          length).tex
            /\ gpu' = [inflight |-> gpu.inflight] @@
                      TexOp("update", t, TRUE, tex[t].sdlformat, tex[t].access = "target",
                            t \in gpu.inflight, tex[t].swizzled)
       ELSE /\ vitaTex[t].live
            /\ \E finish \in {VITA_GXM_LockTexture(vitaTex[t])} :
                 gpu' = [inflight |-> IF finish THEN {} ELSE gpu.inflight] @@
                        TexOp("update", t, TRUE, "ABGR8888", vitaTex[t].tex.gxm_rendertarget,
                              ~finish /\ t \in gpu.inflight, FALSE)
            /\ UNCHANGED tex
    /\ UNCHANGED <<lru, boundTarget, displayListAvail, blendState, gu, useOrder, lastOp,
                   orig, queueVars, vitaVars, winrt>>

\* LockTexture of the driver hands out the pointer to the pixels of the texture
TexLock(t) ==
    /\ IF driver = "PSP"
       THEN /\ tex[t].live
            /\ gpu' = [inflight |-> gpu.inflight] @@
                      TexOp("lock", t, TRUE, tex[t].sdlformat, tex[t].access = "target",
                            gpu.inflight # {}, tex[t].swizzled)
       ELSE /\ vitaTex[t].live
            /\ \E finish \in {VITA_GXM_LockTexture(vitaTex[t])} :
                 gpu' = [inflight |-> IF finish THEN {} ELSE gpu.inflight] @@
                        TexOp("lock", t, TRUE, "ABGR8888", vitaTex[t].tex.gxm_rendertarget,
                              ~finish /\ gpu.inflight # {}, FALSE)
    /\ UNCHANGED <<pspVars, queueVars, vitaVars, winrt>>

\* SDL_FlushRenderCommands -> RunCommandQueue of the driver, on the window or on a
\* render target: the GPU is given the draws and the CPU goes on
TexDraw(target, cmds) ==
    /\ IF driver = "PSP"
       THEN /\ target # NULL => tex[target].live /\ tex[target].access = "target"
            /\ QueueOk(cmds)
            /\ \E r \in {PSP_RunCommandQueue(
                             [W |-> Mem(NumTex + 1, "low", 0), bs |-> blendState, gu |-> gu,
                              color |-> 0, displayListAvail |-> displayListAvail,
                              boundTarget |-> boundTarget, bind |-> <<NULL, FALSE>>],
                             target, cmds, TRUE)} :
                 /\ tex' = r.S.W.tex
                 /\ lru' = [most_recent_target |-> r.S.W.most_recent_target,
                            least_recent_target |-> r.S.W.least_recent_target]
                 /\ boundTarget' = r.S.boundTarget
                 /\ displayListAvail' = r.S.displayListAvail
                 /\ blendState' = r.S.bs
                 /\ gu' = [r.S.gu EXCEPT !.calls = << >>]
                 /\ gpu' = [NoGpu EXCEPT !.op = "draw", !.inflight =
                               gpu.inflight \cup Sampled(cmds)
                                            \cup ({r.S.gu.drawbuffer[1]} \ {NULL})]
            /\ UNCHANGED <<vita, vitaTex>>
       ELSE /\ target # NULL => vitaTex[target].live /\ vitaTex[target].tex.gxm_rendertarget
            /\ \A s \in Sampled(cmds) : vitaTex[s].live
            /\ \E V \in {VITA_GXM_RunCommandQueue(
                             [d |-> vita, tex |-> vitaTex, calls |-> << >>],
                             target, DrawableSize[1], DrawableSize[2], cmds)} :
                 /\ vita' = V.d
                 /\ vitaTex' = V.tex
            /\ gpu' = [NoGpu EXCEPT !.op = "draw", !.inflight =
                          gpu.inflight \cup Sampled(cmds) \cup ({target} \ {NULL})]
            /\ UNCHANGED <<tex, lru, boundTarget, displayListAvail, blendState, gu>>
    /\ UNCHANGED <<useOrder, lastOp, orig, queueVars, gxm, pool, winrt>>

\* SDL_RenderPresent -> RenderPresent of the driver: the PSP waits for the GPU
\* (sceGuFinish, sceGuSync), the Vita queues the buffer for display
TexPresent ==
    /\ IF driver = "PSP"
       THEN /\ displayListAvail
            /\ displayListAvail' = FALSE
            /\ gpu' = [NoGpu EXCEPT !.op = "present"]
            /\ UNCHANGED pool
       ELSE /\ pool' = VITA_GXM_RenderPresent(pool)
            /\ gpu' = [NoGpu EXCEPT !.op = "present", !.inflight = gpu.inflight]
            /\ UNCHANGED displayListAvail
    /\ UNCHANGED <<tex, lru, boundTarget, blendState, gu, useOrder, lastOp, orig,
                   queueVars, vita, vitaTex, gxm, winrt>>

\* SDL_DestroyTexture -> DestroyTexture of the driver: the store is released
TexDestroy(t) ==
    /\ IF driver = "PSP"
       THEN /\ tex[t].live
            /\ \E W \in {PSP_DestroyTexture(Mem(0, "low", 0), t)} :
                  /\ tex' = W.tex
                  /\ lru' = [most_recent_target |-> W.most_recent_target,
                             least_recent_target |-> W.least_recent_target]
            /\ gpu' = [inflight |-> gpu.inflight \ {t}] @@
                      TexOp("destroy", t, TRUE, tex[t].sdlformat, tex[t].access = "target",
                            t \in gpu.inflight, tex[t].swizzled)
            /\ UNCHANGED vitaTex
       ELSE /\ vitaTex[t].live
            /\ VITA_GXM_DestroyTexture(vitaTex[t])
            /\ vitaTex' = [vitaTex EXCEPT ![t] = NoVitaTexture]
            /\ gpu' = [inflight |-> {}] @@
                      TexOp("destroy", t, TRUE, "ABGR8888", vitaTex[t].tex.gxm_rendertarget,
                            FALSE, FALSE)
            /\ UNCHANGED <<tex, lru>>
    /\ UNCHANGED <<boundTarget, displayListAvail, blendState, gu, useOrder, lastOp, orig,
                   queueVars, vita, gxm, pool, winrt>>

TexInit ==
    /\ driver \in {"PSP", "VITA gxm"}
    /\ tex = [t \in T |-> NoTexture]
    /\ lru = [most_recent_target |-> NULL, least_recent_target |-> NULL]
    /\ boundTarget = NULL
    /\ displayListAvail = FALSE
    /\ blendState = InitBlendState
    /\ gu = InitGu
    /\ useOrder = << >>
    /\ lastOp = NoOp
    /\ orig = << >>
    /\ queue = << >>
    /\ ran = << >>
    /\ vita = VitaRenderData("NONE")
    /\ vitaTex = [t \in T |-> NoVitaTexture]
    /\ gxm = << >>
    /\ pool = NoPool
    /\ gpu = NoGpu
    /\ winrt = NoWinRT

TexNext ==
    \/ \E t \in TexSlots, kind \in TexKinds : TexCreate(t, kind.shape, kind.access)
    \/ \E t \in TexSlots : TexUpdate(t)
    \/ \E t \in TexSlots : TexLock(t)
    \/ \E target \in TexSlots \cup {NULL} :
          \E cmds \in TexQueues({target}) : TexDraw(target, cmds)
    \/ TexPresent
    \/ \E t \in TexSlots : TexDestroy(t)

SpecTex == TexInit /\ [][TexNext]_vars

\* C15 (as claimed): when LockTexture has handed out the pointer to the pixels of a
\* render target, in either driver, the GPU pipeline is drained: no submitted work
\* is still in flight.
C15_LockDrainsGpu ==
    (gpu.op = "lock" /\ gpu.target) => ~gpu.pending /\ gpu.inflight = {}

\* C16 (as claimed): when DestroyTexture releases the store of a texture, in either
\* driver, no submitted GPU work that reads or writes that store is in flight.
C16_DestroyWaitsForGpu ==
    gpu.op = "destroy" => ~gpu.pending

\* C17 (as claimed): UpdateTexture never writes its row-major rows into a store that
\* is in swizzled layout.
C17_UpdateWritesLinearStore ==
    gpu.op = "update" => ~gpu.swizzled

\* C18 (as claimed): CreateTexture with a pixel format that the driver does not
\* support returns failure, and no texture exists afterwards.
C18_UnsupportedFormatFails ==
    (gpu.op = "create" /\ gpu.sdlformat \notin SupportedTextureFormats(driver)) =>
        /\ ~gpu.ret
        /\ IF driver = "PSP" THEN ~tex[gpu.t].live ELSE ~vitaTex[gpu.t].live

-----------------------------------------------------------------------------
(* Scene specification: passes over a command queue and presents follow    *)
(* each other in any order.  gu.calls (PSP) and gxm (Vita) keep, over the   *)
(* whole run, the native calls that begin and commit a command buffer.      *)

MaxScene == 6        \* begin and commit calls that are followed

SceneFns == {"sceGxmBeginScene", "sceGxmEndScene", "sceGuStart", "sceGuFinish"}
IsSceneCall(call) == call.fn \in SceneFns

\* The queues a pass is given
SceneQueues ==
    {<<CmdClear>>,
     <<QCmd("DRAW_POINTS", NULL, "BLEND", 1, 1)>>,
     <<CmdClear, QCmd("DRAW_LINES", NULL, "BLEND", 2, 2)>>}

\* SDL_FlushRenderCommands -> RunCommandQueue of the driver, on the window; on the
\* PSP sceGuGetMemory may have no vertex buffer to give
SceneRun(cmds) ==
    /\ Len(gu.calls) + Len(gxm) + 2 <= MaxScene
    /\ IF driver = "PSP"
       THEN /\ \E gpumem \in BOOLEAN :
                 \E r \in {PSP_RunCommandQueue(
                               [W |-> Mem(NumTex + 1, "low", 0), bs |-> blendState,
                                gu |-> gu, color |-> 0,
                                displayListAvail |-> displayListAvail,
                                boundTarget |-> boundTarget, bind |-> <<NULL, FALSE>>],
                               NULL, cmds, gpumem)} :
                    /\ tex' = r.S.W.tex
                    /\ lru' = [most_recent_target |-> r.S.W.most_recent_target,
                               least_recent_target |-> r.S.W.least_recent_target]
                    /\ boundTarget' = r.S.boundTarget
                    /\ displayListAvail' = r.S.displayListAvail
                    /\ blendState' = r.S.bs
                    /\ gu' = [r.S.gu EXCEPT
                                 !.calls = gu.calls \o SelectSeq(@, IsSceneCall)]
                    /\ lastOp' = [NoOp EXCEPT !.op = "run", !.ret = r.ret]
            /\ UNCHANGED <<vita, vitaTex, gxm>>
       ELSE /\ \E V \in {VITA_GXM_RunCommandQueue(
                             [d |-> vita, tex |-> vitaTex, calls |-> << >>],
                             NULL, DrawableSize[1], DrawableSize[2], cmds)} :
                    /\ vita' = V.d
                    /\ vitaTex' = V.tex
                    /\ gxm' = gxm \o SelectSeq(V.calls, IsSceneCall)
            /\ lastOp' = [NoOp EXCEPT !.op = "run"]
            /\ UNCHANGED <<tex, lru, boundTarget, displayListAvail, blendState, gu>>
    /\ UNCHANGED <<useOrder, orig, queueVars, pool, gpu, winrt>>

\* SDL_RenderPresent -> PSP_RenderPresent, which returns false when no display list
\* was started, or VITA_GXM_RenderPresent
ScenePresent ==
    /\ Len(gu.calls) + Len(gxm) < MaxScene
    /\ IF driver = "PSP"
       THEN /\ displayListAvail' = FALSE
            /\ gu' = IF displayListAvail
                     THEN [gu EXCEPT !.calls = Append(@, Call("sceGuFinish", 0, 0))]
                     ELSE gu
            /\ lastOp' = [NoOp EXCEPT !.op = "present", !.ret = displayListAvail]
            /\ UNCHANGED pool
       ELSE /\ pool' = VITA_GXM_RenderPresent(pool)
            /\ lastOp' = [NoOp EXCEPT !.op = "present"]
            /\ UNCHANGED <<displayListAvail, gu>>
    /\ UNCHANGED <<tex, lru, boundTarget, blendState, useOrder, orig, queueVars,
                   vita, vitaTex, gxm, gpu, winrt>>

SceneNext ==
    \/ \E cmds \in SceneQueues : SceneRun(cmds)
    \/ ScenePresent

SpecScene == QueueInit /\ [][SceneNext]_vars

\* The calls are begin, commit, begin, commit, ... from the first on
SceneAlternates(calls, begin, commit) ==
    \A i \in DOMAIN calls : calls[i].fn = (IF i % 2 = 1 THEN begin ELSE commit)

\* The begin and commit calls alternate, and the renderer's flag tells whether a
\* command buffer is open
ScenesBalanced ==
    /\ driver = "VITA gxm" =>
          /\ SceneAlternates(gxm, "sceGxmBeginScene", "sceGxmEndScene")
          /\ Len(gxm) % 2 = 0
          /\ ~vita.drawing
    /\ driver = "PSP" =>
          /\ SceneAlternates(gu.calls, "sceGuStart", "sceGuFinish")
          /\ displayListAvail <=> (Len(gu.calls) % 2 = 1)

\* A Vita pass adds one sceGxmBeginScene and one sceGxmEndScene, a Vita present no
\* call; a PSP pass adds at most a sceGuStart, a PSP present at most a sceGuFinish
SceneStep ==
    /\ (driver = "VITA gxm" /\ lastOp'.op = "run") => Len(gxm') = Len(gxm) + 2
    /\ (driver = "VITA gxm" /\ lastOp'.op = "present") => gxm' = gxm
    /\ (driver = "PSP" /\ lastOp'.op = "run") =>
          \/ gu'.calls = gu.calls
          \/ gu'.calls = Append(gu.calls, Call("sceGuStart", "GU_DIRECT", 0))
    /\ (driver = "PSP" /\ lastOp'.op = "present") =>
          \/ gu'.calls = gu.calls
          \/ gu'.calls = Append(gu.calls, Call("sceGuFinish", 0, 0))

\* C28: over every sequence of passes and presents the native begin and commit
\* calls alternate strictly, a begin first.  Each Vita pass issues one
\* sceGxmBeginScene and, when it returns, one sceGxmEndScene, and drawing is false
\* between the operations; on the PSP no sceGuStart follows a sceGuStart without a
\* sceGuFinish between them and every sceGuFinish follows a sceGuStart.
C28_BeginCommitAlternate == [](ScenesBalanced) /\ [][SceneStep]_vars

\* C28 witness: the Vita renderer after a pass, a present and another pass
C28_Witness ==
    /\ driver = "VITA gxm" /\ lastOp.op = "run"
    /\ Len(gxm) = 4 /\ pool.frontBufferIndex = 0 /\ pool.backBufferIndex = 1

-----------------------------------------------------------------------------
(* Frame specification: the CPU fills and presents frames while the GPU     *)
(* works through the frames handed to it.  gpu.inflight is the set of       *)
(* presented frames the GPU has not finished: their vertices may still be   *)
(* read.                                                                    *)

VITA_GXM_PENDING_SWAPS == 2

\* The frame the CPU is filling, as the GPU will see it: its vertices are the
\* first used bytes of its arena
FrameOf(data) ==
    [frame |-> data.presents, arena |-> data.current_pool, used |-> data.pool_index]

\* VITA_GXM_RenderPresent with the display queue: sceGxmDisplayQueueAddEntry returns
\* once fewer than VITA_GXM_PENDING_SWAPS swaps are pending, and the frame is
\* pending from then on; nothing waits for the GPU
FramePresent ==
    /\ driver = "VITA gxm"
    /\ pool.fault # "crash"
    /\ pool.presents < MaxFrames
    /\ Cardinality(gpu.inflight) < VITA_GXM_PENDING_SWAPS
    /\ pool' = [VITA_GXM_RenderPresent(pool) EXCEPT
                   !.before = pool.spans, !.spans = << >>, !.presents = @ + 1,
                   !.op = "RenderPresent", !.ok = TRUE, !.vertex = NULL, !.wrote = 0]
    /\ gpu' = [gpu EXCEPT !.inflight = @ \cup {FrameOf(pool)}]
    /\ UNCHANGED <<pspVars, queueVars, vita, vitaTex, gxm, winrt>>

\* The GPU finishes the oldest frame it was given, and the display queue shows it
GpuRetire ==
    /\ gpu.inflight # {}
    /\ gpu' = [gpu EXCEPT
                  !.inflight = {f \in @ : \E g \in gpu.inflight : g.frame < f.frame}]
    /\ UNCHANGED <<pspVars, queueVars, vitaVars, winrt>>

FrameNext ==
    \/ \E n \in PointCounts \cup {2} : QueueDrawPointsVertices(n)
    \/ \E n \in LineCounts : QueueDrawLinesVertices(n)
    \/ \E t \in {NULL, 1}, n \in VertexCounts : QueueGeometryVertices(t, n)
    \/ FramePresent
    \/ GpuRetire

SpecFrames == PoolInit /\ [][FrameNext]_vars

\* C29 (as claimed): while the CPU has written vertices of the frame it is filling,
\* no frame whose vertices the GPU may still be reading has them in the same arena:
\* such a frame is the one presented last, and its vertices are in the other arena.
C29_NoWriteIntoArenaInFlight ==
    (driver = "VITA gxm" /\ pool.spans # << >>) =>
        \A f \in gpu.inflight :
            f.used > 0 => /\ f.arena # pool.current_pool
                          /\ f.frame = pool.presents - 1

-----------------------------------------------------------------------------
(* Window specification: the WinRT video driver creates and destroys the    *)
(* windows of the application.  st is the record winrt.                     *)

\* What SDL_EGL_ChooseConfig and eglCreateWindowSurface may do for a window that
\* asks for OpenGL
EglOutcomes == {"ok", "SDL_EGL_ChooseConfig failed",
                "unable to create EGL native-window surface",
                "No supported means to create an EGL window surface are available"}

\* WINRT_DestroyWindow that leaves WINRT_GlobalSDLWindow alone
WINRT_DestroyWindowKeepsGlobal(st, window) ==
    [st EXCEPT !.internal[window] = FALSE,
               !.op = "destroy", !.window = window, !.ret = TRUE, !.error = "none"]

WINRT_DestroyWindow(st, window) ==
    LET st1 == IF st.WINRT_GlobalSDLWindow = window
               THEN [st EXCEPT !.WINRT_GlobalSDLWindow = NULL] ELSE st
    IN [st1 EXCEPT !.internal[window] = FALSE,
                   !.op = "destroy", !.window = window, !.ret = TRUE, !.error = "none"]

\* WINRT_CreateWindow of a window with the flag SDL_WINDOW_OPENGL or without it
WINRT_CreateWindow(st, window, opengl, egl) ==
    LET Failed(st1, error) ==
            [st1 EXCEPT !.op = "create", !.window = window, !.ret = FALSE,
                        !.error = error]
        Data(st2) == [st2 EXCEPT !.internal[window] = TRUE]
    IN IF st.WINRT_GlobalSDLWindow # NULL
       THEN Failed(st, "WinRT only supports one window")
       ELSE IF opengl /\ egl # "ok"
            THEN Failed(Data(st), egl)
            ELSE [Data(st) EXCEPT !.WINRT_GlobalSDLWindow = window,
                                  !.op = "create", !.window = window, !.ret = TRUE,
                                  !.error = "none"]

\* SDL_CreateWindow -> WINRT_CreateWindow, for an SDL_Window that is new
WinrtCreate(window, opengl, egl) ==
    /\ winrt.status[window] = "fresh"
    /\ \E st \in {WINRT_CreateWindow(winrt, window, opengl, egl)} :
          winrt' = [st EXCEPT !.status[window] = IF st.ret THEN "exists" ELSE "failed"]
    /\ UNCHANGED <<pspVars, queueVars, vitaVars, gpu>>

\* SDL_DestroyWindow -> WINRT_DestroyWindow, for a window that exists or whose
\* create failed
WinrtDestroy(window) ==
    /\ winrt.status[window] \in {"exists", "failed"}
    /\ \E st \in {WINRT_DestroyWindow(winrt, window)} :
          winrt' = [st EXCEPT !.status[window] = "gone"]
    /\ UNCHANGED <<pspVars, queueVars, vitaVars, gpu>>

WinrtNext ==
    \/ \E window \in Windows, opengl \in BOOLEAN, egl \in EglOutcomes :
          WinrtCreate(window, opengl, egl)
    \/ \E window \in Windows : WinrtDestroy(window)

SpecWinrt == PoolInit /\ [][WinrtNext]_vars

\* The windows that exist
Existing == {w \in Windows : winrt.status[w] = "exists"}

\* At most one window exists, and it is WINRT_GlobalSDLWindow
OneWindow ==
    /\ Cardinality(Existing) <= 1
    /\ Existing = (IF winrt.WINRT_GlobalSDLWindow = NULL THEN {}
                   ELSE {winrt.WINRT_GlobalSDLWindow})

\* What a create or a destroy does to WINRT_GlobalSDLWindow
WindowStep ==
    /\ (winrt'.op = "create" /\ winrt.WINRT_GlobalSDLWindow # NULL) =>
          /\ ~winrt'.ret /\ winrt'.error = "WinRT only supports one window"
          /\ winrt'.WINRT_GlobalSDLWindow = winrt.WINRT_GlobalSDLWindow
          /\ winrt'.internal = winrt.internal
    /\ (winrt'.op = "create" /\ winrt'.ret) =>
          /\ winrt.WINRT_GlobalSDLWindow = NULL
          /\ winrt'.WINRT_GlobalSDLWindow = winrt'.window
    /\ (winrt'.op = "create" /\ winrt.WINRT_GlobalSDLWindow = NULL
            /\ winrt'.error # "WinRT only supports one window") =>
          (winrt'.ret \/ winrt'.error \in EglOutcomes)
    /\ (winrt'.op = "destroy" /\ winrt'.window = winrt.WINRT_GlobalSDLWindow) =>
          winrt'.WINRT_GlobalSDLWindow = NULL

\* C31: at most one window exists at any time, WINRT_GlobalSDLWindow; a
\* WINRT_CreateWindow while it is set fails with the error of the driver and
\* changes nothing, one that succeeds sets it to the new window, and the
\* WINRT_DestroyWindow of that window sets it to NULL, after which a create is
\* refused no more.
C31_OneWindow == [](OneWindow) /\ [][WindowStep]_vars

\* C31 witness: a window was created after the destruction of the one before it
C31_Witness ==
    /\ winrt.status[1] = "gone" /\ winrt.status[2] = "exists"
    /\ winrt.op = "create" /\ winrt.ret /\ winrt.WINRT_GlobalSDLWindow = 2

-----------------------------------------------------------------------------
(* Sampling specification: textured geometry is queued with the scale mode  *)
(* and the address mode of its texture at the time, and the queue is run.   *)

ScaleModes == {"NEAREST", "LINEAR"}
AddressModes == {"CLAMP", "WRAP"}

\* SDL_RenderGeometry with a texture whose scale and address modes the application
\* has set: the command carries them
QueueGeometrySampled(texture, scale, addr) ==
    Enqueue([QCmd("GEOMETRY", texture, "BLEND",
                  IF driver = "PSP" THEN PSP_QueueGeometry(3)
                  ELSE VITA_GXM_QueueGeometry(3), 3)
             EXCEPT !.scale = scale, !.addr = addr])

SampleNext ==
    \/ \E texture \in QueueTextures, scale \in ScaleModes, addr \in AddressModes :
          QueueGeometrySampled(texture, scale, addr)
    \/ \E cmds \in {queue} \ {<< >>} : RunCommandQueue(NULL, cmds, QueueEnv, TRUE)
    \/ \E cmds \in {queue} \ {<< >>} : VitaRunCommandQueue(cmds)

SpecSample == QueueInit /\ [][SampleNext]_vars

\* The commands a Vita pass began a draw batch with
BatchStarts == {gxm[i].cmd : i \in {j \in DOMAIN gxm : gxm[j].fn = "sceGxmDraw"}}

\* C33 (as claimed): the commands a Vita pass merged into one draw batch all ask
\* for the same texture scale mode and the same texture address modes.
C33_BatchHasOneSampling ==
    (Ran /\ driver = "VITA gxm") =>
        \A c \in BatchStarts : \A j \in c..VitaFinal(ran, c) :
            /\ ran[j].scale = ran[c].scale
            /\ ran[j].addr = ran[c].addr

-----------------------------------------------------------------------------
(* Drawable size specification: the Vita renderer sets viewports and draws  *)
(* while the size of what it draws on changes between passes (the window is *)
(* resized, or the render target switched).                                 *)

DrawableSizes == {<<8, 8>>, <<4, 4>>}

\* VITA_GXM_RunCommandQueue when the window or the target is size[1] x size[2] pixels
VitaRunCommandQueueOn(size, cmds) ==
    /\ driver = "VITA gxm"
    /\ \E V \in {VITA_GXM_RunCommandQueue([d |-> vita, tex |-> vitaTex, calls |-> << >>],
                                          NULL, size[1], size[2], cmds)} :
          /\ vita' = V.d
          /\ vitaTex' = V.tex
          /\ gxm' = V.calls
    /\ queue' = << >>
    /\ ran' = cmds
    /\ lastOp' = [NoOp EXCEPT !.op = "run"]
    /\ UNCHANGED <<tex, lru, boundTarget, displayListAvail, blendState, gu, useOrder, orig,
                   driver, pool, gpu, winrt>>

ResizeNext ==
    \/ \E rect \in Viewports : QueueSetViewport(rect)
    \/ \E n \in PointCounts : QueueDrawPoints(n, "BLEND")
    \/ QueueClear
    \/ QueueSetClipRect(Rect(1, 1, 2, 2), TRUE)
    \/ \E size \in DrawableSizes, cmds \in {queue} \ {<< >>} :
          VitaRunCommandQueueOn(size, cmds)

\* VITA_GXM_CreateRenderer: the renderer of the queue specification, on the Vita
ResizeInit == QueueInit /\ driver = "VITA gxm"

SpecResize == ResizeInit /\ [][ResizeNext]_vars

\* The rectangle that covers all of what the renderer draws on
FullDrawable == Rect(0, 0, vita.drawstate.drawablew, vita.drawstate.drawableh)

\* C36: when a Vita pass ends with a draw, and a SetViewport command has given the
\* renderer a viewport, viewport_is_set is true exactly if the cached viewport is
\* not the full drawable rectangle, whatever viewports were set and whatever sizes
\* the drawable had in the passes so far.
C36_ViewportIsSetIffPartial ==
    (/\ Ran /\ driver = "VITA gxm"
     /\ ran[Len(ran)].command = "DRAW_POINTS"
     /\ vita.drawstate.viewport # Rect(0, 0, 0, 0)) =>
        (vita.drawstate.viewport_is_set <=> vita.drawstate.viewport # FullDrawable)

\* The draw submission after Clear command c is the last of the pass, so that the
\* renderer's state after the pass is the state that submission was made in
DrawnLastAfterClear(c) ==
    /\ ran[c].command = "CLEAR"
    /\ NextDraw(c) # 0
    /\ \A j \in NextDraw(c)..Len(ran) : ran[j].command = "DRAW_POINTS"

\* C38: when the draw submission that follows a Clear in a Vita pass is made with
\* clipping enabled, or with a viewport that a SetViewport command has set and that
\* is not the full drawable rectangle, that submission calls set_clip_rectangle
\* once, before its draw call.
C38_ClipReappliedAfterClear ==
    (Ran /\ driver = "VITA gxm") =>
        \A c \in DOMAIN ran :
            (/\ DrawnLastAfterClear(c)
             /\ \/ vita.drawstate.cliprect_enabled
                \/ vita.drawstate.viewport \notin {FullDrawable, Rect(0, 0, 0, 0)}) =>
                /\ OneCall(NextDraw(c), "set_clip_rectangle")
                /\ \A i \in CallsFor(NextDraw(c), {"set_clip_rectangle"}) :
                      \A j \in CallsFor(NextDraw(c), {"sceGxmDraw"}) : i < j

-----------------------------------------------------------------------------
(* Destruction specification: textures are created and DestroyTexture of    *)
(* the driver is called on an SDL_Texture any number of times.              *)

\* DestroyTexture of the driver on SDL_Texture t, whatever texture->internal is; the
\* op records whether the call found driver data to destroy
DestroyTextureCall(t) ==
    /\ IF driver = "PSP"
       THEN /\ \E W \in {PSP_DestroyTexture(Mem(0, "low", 0), t)} :
                  /\ tex' = W.tex
                  /\ lru' = [most_recent_target |-> W.most_recent_target,
                             least_recent_target |-> W.least_recent_target]
            /\ gpu' = [inflight |-> gpu.inflight \ {t}] @@
                      TexOp("destroy", t, tex[t].live, tex[t].sdlformat,
                            tex[t].access = "target", FALSE, tex[t].swizzled)
            /\ UNCHANGED <<vitaTex, gxm>>
       ELSE /\ vitaTex' = IF VITA_GXM_DestroyTexture(vitaTex[t])
                          THEN [vitaTex EXCEPT ![t] = NoVitaTexture] ELSE vitaTex
            /\ gxm' = IF VITA_GXM_DestroyTexture(vitaTex[t])
                      THEN <<Call("sceGxmFinish", 0, 0), Call("free_gxm_texture", t, 0)>>
                      ELSE << >>
            /\ gpu' = [inflight |-> {}] @@
                      TexOp("destroy", t, VITA_GXM_DestroyTexture(vitaTex[t]), "ABGR8888",
                            vitaTex[t].tex.gxm_rendertarget, FALSE, FALSE)
            /\ UNCHANGED <<tex, lru>>
    /\ UNCHANGED <<boundTarget, displayListAvail, blendState, gu, useOrder, lastOp, orig,
                   driver, queue, ran, vita, pool, winrt>>

DestroyNext ==
    \/ \E t \in TexSlots, kind \in TexKinds : TexCreate(t, kind.shape, kind.access)
    \/ \E t \in TexSlots : DestroyTextureCall(t)

SpecDestroy == TexInit /\ [][DestroyNext]_vars

\* A call of DestroyTexture on t leaves texture->internal NULL, and a call that finds
\* it NULL changes neither the textures nor the LRU list and makes no native call
DestroyedOnce ==
    \A t \in TexSlots :
        (gpu'.op = "destroy" /\ gpu'.t = t) =>
            /\ ~tex'[t].live
            /\ driver = "VITA gxm" => ~vitaTex'[t].live
            /\ (IF driver = "PSP" THEN ~tex[t].live ELSE ~vitaTex[t].live) =>
                  /\ tex' = tex /\ lru' = lru /\ vitaTex' = vitaTex
                  /\ gxm' = << >>
                  /\ ~gpu'.ret

\* C39: DestroyTexture is idempotent in both drivers: the first call on a texture
\* releases it and leaves texture->internal NULL, and a further call on the same
\* SDL_Texture is a no-op that touches neither a store nor the LRU list.
C39_DestroyIsIdempotent == [][DestroyedOnce]_vars

\* C39 witness: PSP_DestroyTexture was called on an SDL_Texture whose internal is
\* NULL while another render target was in the LRU list
C39_Witness ==
    /\ driver = "PSP" /\ gpu.op = "destroy" /\ ~gpu.ret
    /\ ~tex[gpu.t].live
    /\ lru.most_recent_target # NULL

====
